---- MODULE Spec2Model ----
(***************************************************************************)
(* Model of travel_form_generate.py: the totals computed by main() when    *)
(* the travel form is submitted, and the values create_pdf() computes      *)
(* again from the stored record when the PDF is rendered.                  *)
(*                                                                         *)
(* Money is an integer number of mills (1/1000 dollar), so that 0.75 x and *)
(* 0.70 x are exact and round(x, 2) / round(x, 0) are real roundings.      *)
(* A Python float that may be NaN is a record [nan, v]; per-diem values    *)
(* are built from int() results only and are plain integers.               *)
(* Python lists are sequences: Python index i is index i + 1 here.         *)
(***************************************************************************)
EXTENDS Integers, Sequences, FiniteSets, TLC

VARIABLES
    resources,              \* which external resources can be loaded: the
                            \*   workbook template and the two logo images
    departure_date,         \* the two date inputs, as days after 01/01/25
    return_date,
    error_keys,             \* the keys <<category, day>> whose '_has_error' entry
                            \*   of st.session_state is True
    required_missing,       \* some required traveler field is blank
    amount_text,            \* category -> per-day texts of the number fields
    mileage_dates,          \* per-day texts of the mileage date fields
    expense_dates,          \* per-day texts of the expense date fields
    per_diem_dates,         \* per-day texts of the per-diem date fields
    per_diem_amounts,       \* per-day tier entries
    breakfast_checks,
    lunch_checks,
    dinner_checks,
    adjusted_per_diem_daily,\* main's local list after the submission run
    review_data,            \* st.session_state['review_data'] (NoRecord: absent)
    pdf,                    \* what create_pdf computed and printed (NoRecord: none)
    raised,                 \* exception caught by main's top-level handler
    message,                \* the warning or error the last run showed ("" none)
    calls,                  \* the locals of two independent runs of the per-diem loop
    misc_desc1,             \* texts of the two description fields of the
    misc_desc2,             \*   miscellaneous rows of the form
    approve_review,         \* the value of the checkbox with key "approve_review"
    last_dates,             \* st.session_state.last_departure and .last_return
                            \*   (NoRecord: not recorded yet)
    date_fields,            \* the entries of st.session_state under the date
                            \*   field keys, as a function of the pairs
                            \*   <<family, i>> that are in st.session_state:
                            \*   <<"mileage_date", 3>> is 'mileage_date_3'
    range_call,             \* the locals of one run of generate_date_range
    pc                      \* what the last run left on the page:
                            \*   "form"     the form alone
                            \*   "typed"    the form alone, holding text typed
                            \*              since the last run (st.form sends
                            \*              it to the script on submit only)
                            \*   "dates"    the date error alone (st.stop)
                            \*   "rejected" the form and a validation warning (st.stop)
                            \*   "review"   the form and the review pane
                            \*   "error"    what was rendered before an exception
                            \*   "done"     the review pane and the download button

vars == <<resources, departure_date, return_date, error_keys,
          required_missing, amount_text, mileage_dates, expense_dates,
          per_diem_dates,
          per_diem_amounts, breakfast_checks, lunch_checks, dinner_checks,
          adjusted_per_diem_daily, review_data, pdf, raised, message, calls,
          misc_desc1, misc_desc2, approve_review, last_dates, date_fields,
          range_call, pc>>

\* the widget values of the form
form_vars == <<required_missing, amount_text, mileage_dates, expense_dates,
               per_diem_dates,
               per_diem_amounts, breakfast_checks, lunch_checks, dinner_checks>>

\* the two date inputs
date_vars == <<departure_date, return_date>>

\* the two description fields of the miscellaneous rows
desc_vars == <<misc_desc1, misc_desc2>>

\* the session entries the date defaults are kept in
default_vars == <<last_dates, date_fields>>

\* the three families of date field keys: f'mileage_date_{i}',
\* f'expense_date_{i}' and f'per_diem_date_{i}'
DateFieldFamilies == {"mileage_date", "expense_date", "per_diem_date"}

\* `for i in range(0, 100)`: the indexes the date defaults are written for
DateFieldSlots == 100

(***************************************************************************)
(* Bounds                                                                  *)
(***************************************************************************)
MaxDays == 3

(***************************************************************************)
(* Python values                                                           *)
(***************************************************************************)
NoRecord == [present |-> FALSE]

Fl(v) == [nan |-> FALSE, v |-> v]

NaN == [nan |-> TRUE, v |-> 0]

\* a + b on floats
FAdd(a, b) == IF a.nan \/ b.nan THEN NaN ELSE Fl(a.v + b.v)

\* bool(x) of a float
FTruthy(x) == x.nan \/ x.v # 0

RECURSIVE PySum(_)
\* sum(list) of floats from 0. FAdd is exact on mills and NaN absorbs, so the
\* grouping of the additions does not change the sum: the list is added in
\* two halves, which keeps the evaluation of a 60-day list shallow
PySum(s) ==
    IF s = <<>> THEN Fl(0)
    ELSE IF Len(s) = 1 THEN FAdd(Fl(0), s[1])
    ELSE LET h == Len(s) \div 2
         IN  FAdd(PySum(SubSeq(s, 1, h)), PySum(SubSeq(s, h + 1, Len(s))))

RECURSIVE IntSum(_)
\* sum(list) of integers, added in two halves as PySum
IntSum(s) ==
    IF s = <<>> THEN 0
    ELSE IF Len(s) = 1 THEN s[1]
    ELSE LET h == Len(s) \div 2
         IN  IntSum(SubSeq(s, 1, h)) + IntSum(SubSeq(s, h + 1, Len(s)))

\* max(0, x): Python keeps the first argument unless a later one compares greater
PyMax0(x) == IF ~x.nan /\ x.v > 0 THEN x ELSE Fl(0)

\* nearest multiple of unit, ties to the even multiple (Python 3 round)
RoundHalfEven(x, unit) ==
    LET q == x \div unit
        r == x % unit
    IN  IF 2 * r < unit THEN q * unit
        ELSE IF 2 * r > unit THEN (q + 1) * unit
        ELSE IF q % 2 = 0 THEN q * unit ELSE (q + 1) * unit

\* round(x, 2) of a value in mills
Round2(x) == RoundHalfEven(x, 10)

\* round(x, 0) of a value in mills
Round0(x) == RoundHalfEven(x, 1000)

\* round(x, 0) of a float
FRound0(x) == IF x.nan THEN NaN ELSE Fl(Round0(x.v))

RECURSIVE Strip(_)
\* str.strip() on a text given as a sequence of characters
Strip(s) == IF s = <<>> THEN s
            ELSE IF Head(s) = " " THEN Strip(Tail(s))
            ELSE IF s[Len(s)] = " " THEN Strip(SubSeq(s, 1, Len(s) - 1))
            ELSE s

(***************************************************************************)
(* Number fields                                                           *)
(***************************************************************************)
\* The text of a number field, by what float() makes of it:
\*   "empty" ''      "space" ' '      "num" a finite decimal of v mills
\*   "nan"   'nan'   "bad"  text float() rejects, such as 'abc'
TextEmpty == [kind |-> "empty", v |-> 0]

TextSpace == [kind |-> "space", v |-> 0]

TextNum(v) == [kind |-> "num", v |-> v]

TextNaN == [kind |-> "nan", v |-> 0]

TextBad == [kind |-> "bad", v |-> 0]

\* not text_val or not text_val.strip()
TextIsBlank(text) == text.kind \in {"empty", "space"}

\* float(cleaned_text) returns (does not raise ValueError)
FloatParses(text) == text.kind \in {"num", "nan"}

\* float(cleaned_text)
FloatOf(text) == IF text.kind = "nan" THEN NaN ELSE Fl(text.v)

\* min_value=0.0, the default every call site keeps
min_value == Fl(0)

\* if num_val < min_value: num_val = min_value   (NaN < x is False)
ClampToMin(num_val) ==
    IF ~num_val.nan /\ num_val.v < min_value.v THEN min_value ELSE num_val

\* number_text_input: the value returned and the flag left in
\* st.session_state[key + '_has_error']
number_text_input(text) ==
    IF TextIsBlank(text) THEN [value |-> Fl(0), has_error |-> FALSE]
    ELSE IF FloatParses(text)
         THEN [value |-> ClampToMin(FloatOf(text)), has_error |-> FALSE]
         ELSE [value |-> Fl(0), has_error |-> TRUE]

Categories == {"mileage", "airfare", "ground_transport", "parking",
               "lodging", "baggage", "misc", "misc2"}

\* the list a category's number_text_input calls append to
AmountList(texts) == [i \in 1..Len(texts) |-> number_text_input(texts[i]).value]

\* the keys whose '_has_error' entry is True once the number fields of
\* `texts` were rendered: a rendered field overwrites its own entry (lines 54,
\* 69, 79), the entry of a field that is not rendered stays as it was
rendered_error_keys(keys, texts) ==
    {k \in keys : k[2] > Len(texts[k[1]])}
    \cup UNION {{<<c, i>> : i \in {j \in 1..Len(texts[c]) :
                                 number_text_input(texts[c][j]).has_error}} :
               c \in Categories}

\* mutant of has_validation_errors: only the Miles fields are looked at
has_validation_errors_MileageOnly(keys) == \E k \in keys : k[1] = "mileage"

\* some key of st.session_state ends in '_has_error', starts with one of the
\* input prefixes and holds True
has_validation_errors(keys) == \E k \in keys : k[1] \in Categories

\* mutant of FMul70: the rate is 7 dollars per mile
FMul70_SevenDollars(m) == IF m.nan THEN NaN ELSE Fl(m.v * 7)

\* m * 0.70 (thousandths of a mile to mills; exact on the modelled values)
FMul70(m) == IF m.nan THEN NaN ELSE Fl((m.v * 70) \div 100)

\* [m * 0.70 for m in mileage_amounts if m]
MileageTerms(amounts) ==
    LET kept == SelectSeq(amounts, LAMBDA m : FTruthy(m))
    IN  [i \in 1..Len(kept) |-> FMul70(kept[i])]

\* mutant of main_total_mileage: each day is rounded before the sum
main_total_mileage_RoundPerDay(amounts) ==
    LET terms == MileageTerms(amounts)
    IN  FRound0(PySum([i \in 1..Len(terms) |-> FRound0(terms[i])]))

\* total_mileage = round(sum([m * 0.70 for m in mileage_amounts if m]), 0)
main_total_mileage(amounts) == FRound0(PySum(MileageTerms(amounts)))

\* create_pdf: grand_mileage_rate_total, each day rounded before it is added
pdf_mileage_terms(amounts) ==
    LET kept == SelectSeq(amounts, LAMBDA m : FTruthy(m))
    IN  [i \in 1..Len(kept) |-> FRound0(FMul70(kept[i]))]

grand_mileage_rate_total(amounts) == FRound0(PySum(pdf_mileage_terms(amounts)))

\* mutant of SumTruthy: only the last day is counted
SumTruthy_LastDayOnly(xs) == IF xs = <<>> THEN Fl(0) ELSE xs[Len(xs)]

\* sum(x for x in xs if x)
SumTruthy(xs) == PySum(SelectSeq(xs, LAMBDA x : FTruthy(x)))

(***************************************************************************)
(* Per diem                                                                *)
(***************************************************************************)
\* An entry of per_diem_amounts, by what `x` (truth value) and int(x) make of it
TierInt(n) == [kind |-> "int", v |-> n]

\* a non-numeric string such as 'abc': truthy, int() raises ValueError
TierStr == [kind |-> "str", v |-> 0]

\* None
TierNone == [kind |-> "none", v |-> 0]

TierTruthy(e) == e.kind = "str" \/ (e.kind = "int" /\ e.v # 0)

IntRaises(e) == e.kind = "str"

\* mutant of HasDate: the date is tested without strip()
HasDate_NoStrip(d) == d # <<>>

\* d and str(d).strip()
HasDate(d) == d # <<>> /\ Strip(d) # <<>>

\* days_with_dates, as the set of its (increasing) entries
days_with_dates(dates) == {i \in 1..Len(dates) : HasDate(dates[i])}

SetMin(S) == CHOOSE x \in S : \A y \in S : x <= y

SetMax(S) == CHOOSE x \in S : \A y \in S : x >= y

\* days_with_dates[0] if days_with_dates else 0
first_day_idx(dates) ==
    IF days_with_dates(dates) # {} THEN SetMin(days_with_dates(dates)) ELSE 1

\* days_with_dates[-1] if days_with_dates else 0
last_day_idx(dates) ==
    IF days_with_dates(dates) # {} THEN SetMax(days_with_dates(dates)) ELSE 1

\* checks[i] guarded by i < len(checks)
Checked(checks, i) == i <= Len(checks) /\ checks[i]

\* The tier the code falls back to
DefaultTier == 80

\* create_pdf's table (meal and incidental amounts in dollars, first_last in mills)
meal_deductions ==
    (68 :> [breakfast |-> 16, lunch |-> 19, dinner |-> 28, incidental |-> 5, first_last |-> 51000]) @@
    (74 :> [breakfast |-> 18, lunch |-> 20, dinner |-> 31, incidental |-> 5, first_last |-> 55500]) @@
    (80 :> [breakfast |-> 20, lunch |-> 22, dinner |-> 33, incidental |-> 5, first_last |-> 60000]) @@
    (86 :> [breakfast |-> 22, lunch |-> 23, dinner |-> 36, incidental |-> 5, first_last |-> 64500]) @@
    (92 :> [breakfast |-> 23, lunch |-> 26, dinner |-> 38, incidental |-> 5, first_last |-> 69000])

\* main's copy of the table
main_meal_deductions ==
    (68 :> [breakfast |-> 16, lunch |-> 19, dinner |-> 28, incidental |-> 5, first_last |-> 51000]) @@
    (74 :> [breakfast |-> 18, lunch |-> 20, dinner |-> 31, incidental |-> 5, first_last |-> 55500]) @@
    (80 :> [breakfast |-> 20, lunch |-> 22, dinner |-> 33, incidental |-> 5, first_last |-> 60000]) @@
    (86 :> [breakfast |-> 22, lunch |-> 23, dinner |-> 36, incidental |-> 5, first_last |-> 64500]) @@
    (92 :> [breakfast |-> 23, lunch |-> 26, dinner |-> 38, incidental |-> 5, first_last |-> 69000])

\* table.get(base_per_diem, table[80])
Deducts(table, base_per_diem) ==
    IF base_per_diem \in DOMAIN table THEN table[base_per_diem] ELSE table[DefaultTier]

\* mutant of DeductionTotal: the three `if` become an if/elif chain
DeductionTotal_FirstMealOnly(deducts, bchk, lchk, dchk, i) ==
    IF Checked(bchk, i) THEN deducts.breakfast
    ELSE IF Checked(lchk, i) THEN deducts.lunch
    ELSE IF Checked(dchk, i) THEN deducts.dinner
    ELSE 0

\* mutant of DeductionTotal: the incidental amount is deducted as well
DeductionTotal_WithIncidental(deducts, bchk, lchk, dchk, i) ==
    (IF Checked(bchk, i) THEN deducts.breakfast ELSE 0)
    + (IF Checked(lchk, i) THEN deducts.lunch ELSE 0)
    + (IF Checked(dchk, i) THEN deducts.dinner ELSE 0)
    + deducts.incidental

\* deduction_total (dollars) of day i
DeductionTotal(deducts, bchk, lchk, dchk, i) ==
    (IF Checked(bchk, i) THEN deducts.breakfast ELSE 0)
    + (IF Checked(lchk, i) THEN deducts.lunch ELSE 0)
    + (IF Checked(dchk, i) THEN deducts.dinner ELSE 0)

\* mutant of Pre75Total: the max(0.0, ...) is dropped
Pre75Total_NoFloor(base_per_diem, deduction_total) ==
    (base_per_diem - deduction_total) * 1000

\* max(0.0, float(base_per_diem) - deduction_total), in mills
Pre75Total(base_per_diem, deduction_total) ==
    IF base_per_diem - deduction_total > 0
    THEN (base_per_diem - deduction_total) * 1000 ELSE 0

\* mutant of Times075: the first and last day keep 70 percent
Times075_SeventyPercent(x) == (x * 70) \div 100

\* pre75_total * 0.75, in mills
Times075(x) == (x * 75) \div 100

\* mutant of FinalPerDiem: only the first day is reduced
FinalPerDiem_FirstDayOnly(i, first, last, pre75_total) ==
    IF i = first THEN Round2(Times075(pre75_total))
    ELSE Round2(pre75_total)

\* mutant of FinalPerDiem: the first-day and the last-day reduction are
\* separate steps, so a day that is both is reduced twice
FinalPerDiem_OncePerRole(i, first, last, pre75_total) ==
    LET after_first == IF i = first THEN Times075(pre75_total) ELSE pre75_total
        after_last  == IF i = last THEN Times075(after_first) ELSE after_first
    IN  Round2(after_last)

\* final_per_diem of day i
FinalPerDiem(i, first, last, pre75_total) ==
    IF i = first \/ i = last THEN Round2(Times075(pre75_total))
    ELSE Round2(pre75_total)

\* --- main(), lines 1238-1274 ---

\* int(per_diem_amounts[i]) if (i < len(per_diem_amounts) and per_diem_amounts[i]) else 80
main_base_per_diem(amounts, i) ==
    IF i <= Len(amounts) /\ TierTruthy(amounts[i]) THEN amounts[i].v ELSE DefaultTier

\* the loop raises ValueError on some day
main_per_diem_raises(dates, amounts) ==
    \E i \in days_with_dates(dates) :
        i <= Len(amounts) /\ TierTruthy(amounts[i]) /\ IntRaises(amounts[i])

main_final_per_diem(dates, amounts, bchk, lchk, dchk, i) ==
    LET base == main_base_per_diem(amounts, i)
        ded  == DeductionTotal(Deducts(main_meal_deductions, base), bchk, lchk, dchk, i)
    IN  FinalPerDiem(i, first_day_idx(dates), last_day_idx(dates), Pre75Total(base, ded))

\* adjusted_per_diem_daily
main_adjusted_per_diem_daily(dates, amounts, bchk, lchk, dchk) ==
    [i \in 1..Len(dates) |->
        IF HasDate(dates[i]) THEN main_final_per_diem(dates, amounts, bchk, lchk, dchk, i)
        ELSE 0]

\* --- create_pdf(), lines 636-698 ---

\* mutant of pdf_base_per_diem: create_pdf takes tier 80 for every day
pdf_base_per_diem_Always80(amounts, i) == DefaultTier

\* first loop: same expression as main's
pdf_base_per_diem(amounts, i) ==
    IF i <= Len(amounts) /\ TierTruthy(amounts[i]) THEN amounts[i].v ELSE DefaultTier

pdf_final_per_diem(dates, amounts, bchk, lchk, dchk, i) ==
    LET base == pdf_base_per_diem(amounts, i)
        ded  == DeductionTotal(Deducts(meal_deductions, base), bchk, lchk, dchk, i)
    IN  FinalPerDiem(i, first_day_idx(dates), last_day_idx(dates), Pre75Total(base, ded))

\* adjusted_per_diem (daily_totals holds the same values)
pdf_adjusted_per_diem(dates, amounts, bchk, lchk, dchk) ==
    [i \in 1..Len(dates) |->
        IF HasDate(dates[i]) THEN pdf_final_per_diem(dates, amounts, bchk, lchk, dchk, i)
        ELSE 0]

\* second loop: int(per_diem_amounts[i]) if per_diem_amounts[i] else 80,
\* with no guard on the length of per_diem_amounts
pdf_second_base_per_diem(amounts, i) ==
    IF TierTruthy(amounts[i]) THEN amounts[i].v ELSE DefaultTier

\* total_reductions, in mills
total_reductions(dates, amounts, bchk, lchk, dchk) ==
    [i \in 1..Len(dates) |->
        IF HasDate(dates[i])
        THEN Round2(1000 * DeductionTotal(
                 Deducts(meal_deductions, pdf_second_base_per_diem(amounts, i)),
                 bchk, lchk, dchk, i))
        ELSE 0]

\* daily_meal_totals, in mills
daily_meal_totals(dates, amounts, bchk, lchk, dchk) ==
    [i \in 1..Len(dates) |->
        IF HasDate(dates[i])
        THEN LET base == pdf_second_base_per_diem(amounts, i)
                 ded  == DeductionTotal(Deducts(meal_deductions, base), bchk, lchk, dchk, i)
             IN  Round2(Pre75Total(base, ded))
        ELSE 0]

\* The exception create_pdf's per-diem loops raise ("" when they raise none):
\* the first loop raises ValueError from int(); the second loop indexes
\* per_diem_amounts[i] on every dated day and raises IndexError past its end.
pdf_per_diem_raises(dates, amounts) ==
    IF \E i \in days_with_dates(dates) :
           i <= Len(amounts) /\ TierTruthy(amounts[i]) /\ IntRaises(amounts[i])
    THEN "ValueError"
    ELSE IF \E i \in days_with_dates(dates) : i > Len(amounts)
    THEN "IndexError"
    ELSE ""

(***************************************************************************)
(* Travel dates and the defaults of the date fields: main(), lines         *)
(* 998-1051, and generate_date_range                                       *)
(***************************************************************************)
Min(a, b) == IF a <= b THEN a ELSE b

\* the cap of line 1022
MaxFormDays == 60

\* mutant of total_days: the day count is not capped
total_days_NoCap(dep, ret) == IF ret >= dep THEN (ret - dep) + 1 ELSE 7

\* total_days, lines 1019-1024
total_days(dep, ret) ==
    IF ret >= dep THEN Min((ret - dep) + 1, MaxFormDays) ELSE 7

\* days of the months of 2025
DaysInMonth == <<31, 28, 31, 30, 31, 30, 31, 31, 30, 31, 30, 31>>

RECURSIVE MonthDay(_, _)
\* month and day of month of the day d days after the first of month m
MonthDay(d, m) ==
    IF d < DaysInMonth[m] THEN [month |-> m, day |-> d + 1]
    ELSE MonthDay(d - DaysInMonth[m], m + 1)

Digit(k) == <<"0", "1", "2", "3", "4", "5", "6", "7", "8", "9">>[k + 1]

TwoDigits(k) == <<Digit(k \div 10), Digit(k % 10)>>

\* current_date.strftime('%m/%d/%y')
strftime(d) ==
    LET md == MonthDay(d, 1)
    IN  TwoDigits(md.month) \o <<"/">> \o TwoDigits(md.day) \o <<"/", "2", "5">>

\* the first loop of generate_date_range:
\*   while current_date <= end_date and len(dates) < max_days: append, step a day
\* pass i of the loop runs when the i-th day from start_date is not after
\* end_date and i <= max_days, and appends that day
date_range_loop(start_date, end_date, max_days) ==
    LET passes == {i \in 1..max_days : start_date + (i - 1) <= end_date}
    IN  [i \in 1..Cardinality(passes) |-> strftime(start_date + (i - 1))]

\* the second loop: while len(dates) < max_days: dates.append('')
date_range_fill(dates, max_days) ==
    dates \o [i \in 1..(max_days - Len(dates)) |-> <<>>]

\* a date argument that is None
NoDate == -1

\* generate_date_range
generate_date_range(start_date, end_date, max_days) ==
    IF start_date = NoDate \/ end_date = NoDate
    THEN \* if not start_date or not end_date: return [''] * max_days
         [i \in 1..max_days |-> <<>>]
    ELSE date_range_fill(date_range_loop(start_date, end_date, max_days), max_days)

\* the keys f'mileage_date_{i}', f'expense_date_{i}', f'per_diem_date_{i}'
\* for i in range(n), as pairs <<family, i>>
DateKeys(n) == DateFieldFamilies \X (0..(n - 1))

\* dates_changed, lines 1009-1016: last_departure and last_return are set to
\* the dates of the run when they are not in st.session_state
dates_changed(last, dep, ret) ==
    last.present /\ (dep # last.departure \/ ret # last.return)

\* st.session_state.last_departure, .last_return after lines 1009-1012 and
\* 1027-1029
last_dates_after(last, dep, ret) ==
    IF ~last.present \/ dates_changed(last, dep, ret)
    THEN [present |-> TRUE, departure |-> dep, return |-> ret]
    ELSE last

\* mutant of date_fields_after: a date change fills only the fields that are
\* not in st.session_state
date_fields_after_KeepsPresent(fields, last, dep, ret) ==
    LET n == total_days(dep, ret)
        default_dates == generate_date_range(dep, ret, n)
    IN  [k \in DOMAIN fields \cup DateKeys(n) |->
            IF k \in DOMAIN fields THEN fields[k]
            ELSE IF k[2] < Len(default_dates) THEN default_dates[k[2] + 1]
            ELSE <<>>]

\* the date field entries of st.session_state after lines 1025-1051
date_fields_after(fields, last, dep, ret) ==
    LET n == total_days(dep, ret)
        default_dates == generate_date_range(dep, ret, n)
    IN  IF dates_changed(last, dep, ret)
        THEN \* for i in range(0, 100): the three keys are set
             [k \in DateKeys(DateFieldSlots) |->
                 IF k[2] < Len(default_dates) /\ default_dates[k[2] + 1] # <<>>
                 THEN default_dates[k[2] + 1]
                 ELSE <<>>]
        ELSE \* for i in range(total_days): a key that is missing is set
             [k \in DOMAIN fields \cup DateKeys(n) |->
                 IF k \in DOMAIN fields THEN fields[k]
                 ELSE IF k[2] < Len(default_dates) THEN default_dates[k[2] + 1]
                 ELSE <<>>]

\* the list a run collects from the n date fields of one family:
\*   st.text_input(f"Day {i+1}", key=f"mileage_date_{i}", ...)
rendered_dates(fields, family, n) == [i \in 1..n |-> fields[<<family, i - 1>>]]

\* the date field entries when the form is submitted: the entries of the
\* fields on the page take the texts the form holds
submitted_date_fields(fields, mdates, edates, pdates) ==
    [k \in DOMAIN fields \cup DateKeys(Len(pdates)) |->
        IF k[2] < Len(pdates)
        THEN IF k[1] = "mileage_date" THEN mdates[k[2] + 1]
             ELSE IF k[1] = "expense_date" THEN edates[k[2] + 1]
             ELSE pdates[k[2] + 1]
        ELSE fields[k]]

\* the date field entries after a run that does not render the form: the
\* entries of the n fields that were on the page are dropped with their
\* widgets, the entries set for other indexes stay
dropped_date_widgets(fields, n) ==
    [k \in {q \in DOMAIN fields : q[2] >= n} |-> fields[k]]

\* lines 1007-1051 in a run with the dates dep and ret, from the date field
\* entries `fields`
TrackDates(fields, dep, ret) ==
    /\ date_fields' = date_fields_after(fields, last_dates, dep, ret)
    /\ last_dates' = last_dates_after(last_dates, dep, ret)

(***************************************************************************)
(* Submission: main(), lines 1089 and 1191-1321                            *)
(***************************************************************************)
\* total_amount_due = total_mileage + total_airfare + ... + total_per_diem
main_total_amount_due(fd) ==
    FAdd(FAdd(FAdd(FAdd(FAdd(FAdd(FAdd(fd.total_mileage, fd.total_airfare),
         fd.total_ground_transport), fd.total_parking), fd.total_lodging),
         fd.total_baggage), fd.total_misc), Fl(fd.total_per_diem))

\* the record main builds, before total_amount_due is added
FormTotals(texts, desc1, desc2, mdates, edates, dates, amounts, bchk, lchk, dchk) ==
    [present |-> TRUE,
     mileage_dates |-> mdates,
     expense_dates |-> edates,
     misc_desc1 |-> desc1,
     misc_desc2 |-> desc2,
     mileage_amounts |-> AmountList(texts["mileage"]),
     total_mileage |-> main_total_mileage(AmountList(texts["mileage"])),
     airfare |-> AmountList(texts["airfare"]),
     ground_transport |-> AmountList(texts["ground_transport"]),
     parking |-> AmountList(texts["parking"]),
     lodging |-> AmountList(texts["lodging"]),
     baggage |-> AmountList(texts["baggage"]),
     misc |-> AmountList(texts["misc"]),
     misc2 |-> AmountList(texts["misc2"]),
     total_airfare |-> PySum(AmountList(texts["airfare"])),
     total_ground_transport |-> PySum(AmountList(texts["ground_transport"])),
     total_parking |-> PySum(AmountList(texts["parking"])),
     total_lodging |-> PySum(AmountList(texts["lodging"])),
     total_baggage |-> PySum(AmountList(texts["baggage"])),
     total_misc |-> FAdd(PySum(AmountList(texts["misc"])), PySum(AmountList(texts["misc2"]))),
     per_diem_dates |-> dates,
     per_diem_amounts |-> amounts,
     breakfast_checks |-> bchk,
     lunch_checks |-> lchk,
     dinner_checks |-> dchk,
     total_per_diem |-> IntSum(main_adjusted_per_diem_daily(dates, amounts, bchk, lchk, dchk))]

\* form_data
FormData(texts, desc1, desc2, mdates, edates, dates, amounts, bchk, lchk, dchk) ==
    LET fd == FormTotals(texts, desc1, desc2, mdates, edates, dates, amounts,
                         bchk, lchk, dchk)
    IN  [k \in DOMAIN fd \cup {"total_amount_due"} |->
            IF k = "total_amount_due" THEN main_total_amount_due(fd) ELSE fd[k]]

\* int(review.get('total_mileage', 0)) raises on NaN
review_pane_raises(review) == review.total_mileage.nan

\* the form is on the page: the last run rendered it
FormOnPage ==
    \/ pc \in {"form", "typed", "rejected", "review", "done"}
    \/ pc = "error" /\ resources.template

\* what a run that stores no new record leaves of the review pane: it is
\* rendered again when 'review_data' is in st.session_state (line 1325)
PaneAfterRun(review, ok_pc) ==
    IF ~review.present THEN [pc |-> ok_pc, raised |-> "", message |-> ""]
    ELSE IF review_pane_raises(review)
    THEN [pc |-> "error", raised |-> "ValueError", message |-> "error"]
    ELSE [pc |-> "review", raised |-> "", message |-> ""]

\* the value of the checkbox with key "approve_review" after a run: a widget
\* keeps its value while every run renders it, and the checkbox is rendered
\* (line 1387) in the runs that reach the end of the review pane
checkbox_after_run(approved, next_pc) == approved /\ next_pc \in {"review", "done"}

\* The "Generate PDF" button of the form is pressed: one run of main() with
\* submitted = True
Submit ==
    /\ FormOnPage
    /\ error_keys' = rendered_error_keys(error_keys, amount_text)
    /\ pdf' = NoRecord
    /\ IF required_missing
       THEN \* st.warning("Please fill in all required fields ..."); st.stop()
            /\ pc' = "rejected"
            /\ message' = "required"
            /\ raised' = ""
            /\ UNCHANGED <<adjusted_per_diem_daily, review_data>>
       ELSE IF has_validation_errors(error_keys')
       THEN \* st.warning("... fix all invalid input fields above."); st.stop()
            /\ pc' = "rejected"
            /\ message' = "invalid"
            /\ raised' = ""
            /\ UNCHANGED <<adjusted_per_diem_daily, review_data>>
       ELSE IF main_per_diem_raises(per_diem_dates, per_diem_amounts)
       THEN \* caught by `except Exception as e` at the end of main
            /\ pc' = "error"
            /\ message' = "error"
            /\ raised' = "ValueError"
            /\ UNCHANGED <<adjusted_per_diem_daily, review_data>>
       ELSE /\ adjusted_per_diem_daily' =
                   main_adjusted_per_diem_daily(per_diem_dates, per_diem_amounts,
                       breakfast_checks, lunch_checks, dinner_checks)
            /\ review_data' =
                   FormData(amount_text, misc_desc1, misc_desc2, mileage_dates,
                       expense_dates, per_diem_dates, per_diem_amounts,
                       breakfast_checks, lunch_checks, dinner_checks)
            /\ IF review_pane_raises(review_data')
               THEN \* the review pane of the same run raises on int(nan)
                    /\ pc' = "error"
                    /\ message' = "error"
                    /\ raised' = "ValueError"
               ELSE /\ pc' = "review"
                    /\ message' = "review"
                    /\ raised' = ""
    /\ approve_review' = checkbox_after_run(approve_review, pc')
    /\ TrackDates(submitted_date_fields(date_fields, mileage_dates, expense_dates,
                                        per_diem_dates),
                  departure_date, return_date)
    /\ UNCHANGED <<resources, desc_vars, range_call, date_vars, form_vars, calls>>

(***************************************************************************)
(* Review pane and create_pdf: main(), lines 1324-1399                     *)
(***************************************************************************)
\* subtotal and total_amount_due = max(0, total_amount_due) of create_pdf
pdf_total_amount_due(form_data) ==
    PyMax0(FAdd(FAdd(FAdd(FAdd(FAdd(FAdd(FAdd(form_data.total_mileage,
        form_data.total_airfare), form_data.total_ground_transport),
        form_data.total_parking), form_data.total_lodging),
        form_data.total_baggage), form_data.total_misc),
        Fl(form_data.total_per_diem)))

(***************************************************************************)
(* The tables of create_pdf: seven days per table                          *)
(***************************************************************************)

\* chunk_list(items, chunk_size):
\*   [items[i:i+chunk_size] for i in range(0, len(items), chunk_size)]
chunk_list(items, chunk_size) ==
    [k \in 1..((Len(items) + chunk_size - 1) \div chunk_size) |->
        SubSeq(items, (k - 1) * chunk_size + 1,
               IF k * chunk_size <= Len(items) THEN k * chunk_size ELSE Len(items))]

\* pad_to_length(items, length, pad_value)
pad_to_length(items, length, pad_value) ==
    items \o [i \in 1..(length - Len(items)) |-> pad_value]

\* items[a:b] for 0 <= a <= b
PySlice(items, a, b) ==
    SubSeq(items, a + 1, IF b <= Len(items) THEN b ELSE Len(items))

\* a table cell that is '' and one that shows an amount
EmptyCell == [present |-> FALSE]

MoneyCell(x) == [present |-> TRUE, value |-> x]

\* f"${x:.2f}" if x else '' (str(x) if x else '' in the mileage row); the pad
\* value '' of the mileage row is EmptyCell
AmountCell(x) ==
    IF x = EmptyCell THEN EmptyCell
    ELSE IF FTruthy(x) THEN MoneyCell(x) ELSE EmptyCell

\* f"${x:.2f}" if x > 0 else ''
PositiveCell(x) == IF x > 0 THEN MoneyCell(x) ELSE EmptyCell

\* mutant of is_last_chunk: the first table shows the grand total
is_last_chunk_First(idx, total_chunks) == idx = 1

\* idx == total_mileage_chunks - 1, i == total_expense_chunks - 1,
\* i == len(chunk_list(per_diem_dates, 7)) - 1, with tables counted from 1
is_last_chunk(idx, total_chunks) == idx = total_chunks

\* the cell under 'Total': only the last table shows the grand total
total_cell(idx, total_chunks, grand) ==
    IF is_last_chunk(idx, total_chunks) THEN MoneyCell(grand) ELSE EmptyCell

\* mileage_tables, lines 444-479
mileage_tables(form_data) ==
    LET mileage_dates_chunks == chunk_list(form_data.mileage_dates, 7)
        mileage_amount_chunks == chunk_list(form_data.mileage_amounts, 7)
        total_mileage_chunks == Len(mileage_dates_chunks)
    IN  [idx \in 1..total_mileage_chunks |->
            LET amounts_chunk ==
                    IF idx <= Len(mileage_amount_chunks)
                    THEN mileage_amount_chunks[idx] ELSE <<>>
            IN  [dates |-> pad_to_length(mileage_dates_chunks[idx], 7, <<>>),
                 amounts |-> [j \in 1..7 |->
                     AmountCell(pad_to_length(amounts_chunk, 7, EmptyCell)[j])],
                 total |-> total_cell(idx, total_mileage_chunks,
                     grand_mileage_rate_total(form_data.mileage_amounts))]]

\* a row of an expense table: the amounts of days i*7 .. i*7+6 of one list and
\* the list's grand total
expense_row(label, amounts, i, total_expense_chunks) ==
    [label |-> label,
     cells |-> [j \in 1..7 |->
         AmountCell(pad_to_length(PySlice(amounts, (i - 1) * 7, i * 7), 7, Fl(0))[j])],
     total |-> total_cell(i, total_expense_chunks, SumTruthy(amounts))]

\* misc_label1, misc_label2: the stripped description, None when it is blank
misc_label(desc) == IF desc # <<>> /\ Strip(desc) # <<>> THEN Strip(desc) ELSE <<>>

\* the rows appended after the fixed 'Miscellaneous/Other' heading row:
\*   if misc_label1 is not None: expenses_data.append(...)
\*   if misc_label2 is not None: expenses_data.append(...)
misc_rows(form_data, i, total_expense_chunks) ==
    (IF misc_label(form_data.misc_desc1) # <<>>
     THEN <<expense_row(misc_label(form_data.misc_desc1), form_data.misc, i,
                        total_expense_chunks)>>
     ELSE <<>>)
    \o
    (IF misc_label(form_data.misc_desc2) # <<>>
     THEN <<expense_row(misc_label(form_data.misc_desc2), form_data.misc2, i,
                        total_expense_chunks)>>
     ELSE <<>>)

\* expense_tables, lines 539-571
expense_tables(form_data) ==
    LET expense_chunks == chunk_list(form_data.expense_dates, 7)
        total_expense_chunks == Len(expense_chunks)
    IN  [i \in 1..total_expense_chunks |->
            [dates |-> pad_to_length(expense_chunks[i], 7, <<>>),
             airfare |-> expense_row(<<>>, form_data.airfare, i, total_expense_chunks),
             ground_transport |->
                 expense_row(<<>>, form_data.ground_transport, i, total_expense_chunks),
             parking |-> expense_row(<<>>, form_data.parking, i, total_expense_chunks),
             lodging |-> expense_row(<<>>, form_data.lodging, i, total_expense_chunks),
             baggage |-> expense_row(<<>>, form_data.baggage, i, total_expense_chunks),
             misc_rows |-> misc_rows(form_data, i, total_expense_chunks)]]

\* per_diem_tables, lines 700-754: the date row and the 'Total Per Diem' row
\* (`adjusted` is the value of the list adjusted_per_diem)
per_diem_tables(form_data, adjusted_per_diem) ==
    LET chunks == chunk_list(form_data.per_diem_dates, 7)
    IN  CHOOSE tables \in
            {[i \in 1..Len(chunks) |->
                LET pd == pad_to_length(chunks[i], 7, <<>>)
                    adj == pad_to_length(PySlice(adjusted, (i - 1) * 7, i * 7), 7, 0)
                IN  [dates |-> [j \in 1..7 |-> IF HasDate(pd[j]) THEN pd[j] ELSE <<>>],
                     adjusted |-> [j \in 1..7 |-> PositiveCell(adj[j])],
                     total |-> total_cell(i, Len(chunks), IntSum(adjusted))]]
             : adjusted \in {adjusted_per_diem}} : TRUE

\* The exception create_pdf raises on form_data ("" when it returns)
create_pdf_raises(form_data) ==
    IF grand_mileage_rate_total(form_data.mileage_amounts).nan
    THEN "ValueError"   \* int(grand_mileage_rate_total)
    ELSE pdf_per_diem_raises(form_data.per_diem_dates, form_data.per_diem_amounts)

\* load_logo_image: the Image, or None when urlopen or PIL raises
load_logo_image(fetched) == IF fetched THEN "Image" ELSE "None"

\* header_row: left_logo if left_logo else ''
header_cell(logo) == IF logo # "None" THEN logo ELSE ""

\* The values create_pdf computes and prints
create_pdf(form_data, res) ==
    LET dates == form_data.per_diem_dates
        amts  == form_data.per_diem_amounts
        bchk  == form_data.breakfast_checks
        lchk  == form_data.lunch_checks
        dchk  == form_data.dinner_checks
    IN  [present |-> TRUE,
         left_logo |-> header_cell(load_logo_image(res.left_logo)),
         right_logo |-> header_cell(load_logo_image(res.right_logo)),
         grand_mileage_rate_total |-> grand_mileage_rate_total(form_data.mileage_amounts),
         grand_af |-> SumTruthy(form_data.airfare),
         grand_gt |-> SumTruthy(form_data.ground_transport),
         grand_pk |-> SumTruthy(form_data.parking),
         grand_lg |-> SumTruthy(form_data.lodging),
         grand_bg |-> SumTruthy(form_data.baggage),
         grand_m1 |-> SumTruthy(form_data.misc),
         grand_m2 |-> SumTruthy(form_data.misc2),
         mileage_tables |-> mileage_tables(form_data),
         expense_tables |-> expense_tables(form_data),
         per_diem_tables |->
             per_diem_tables(form_data,
                 pdf_adjusted_per_diem(dates, amts, bchk, lchk, dchk)),
         adjusted_per_diem |-> pdf_adjusted_per_diem(dates, amts, bchk, lchk, dchk),
         total_per_diem_calculated |->
             IntSum(pdf_adjusted_per_diem(dates, amts, bchk, lchk, dchk)),
         total_reductions |-> total_reductions(dates, amts, bchk, lchk, dchk),
         daily_meal_totals |-> daily_meal_totals(dates, amts, bchk, lchk, dchk),
         total_mileage |-> form_data.total_mileage,
         total_airfare |-> form_data.total_airfare,
         total_ground_transport |-> form_data.total_ground_transport,
         total_parking |-> form_data.total_parking,
         total_lodging |-> form_data.total_lodging,
         total_baggage |-> form_data.total_baggage,
         total_misc |-> form_data.total_misc,
         total_per_diem |-> form_data.total_per_diem,
         total_amount_due |-> pdf_total_amount_due(form_data)]

\* st.button("Finalize and Download PDF", disabled=not approved)
button_enabled(approved) == approved

\* if generate_now and approved:
generate_pdf_now(generate_now, approved) == generate_now /\ approved

\* mutant of del_review_data: the record stays in st.session_state
del_review_data_Kept(review) == review

\* del st.session_state['review_data']
del_review_data(review) == NoRecord

\* mutant of Finalize: the button works and the PDF is made without the approval
Finalize_Unapproved ==
    /\ pc = "review"
    /\ review_data.present
    /\ ~review_pane_raises(review_data)
    /\ error_keys' = rendered_error_keys(error_keys, amount_text)
    /\ IF create_pdf_raises(review_data) # ""
       THEN \* caught by `except Exception as e`: st.error, no download button
            /\ raised' = create_pdf_raises(review_data)
            /\ message' = "error"
            /\ pc' = "error"
            /\ pdf' = NoRecord
            /\ UNCHANGED review_data
       ELSE /\ pdf' = create_pdf(review_data, resources)
            /\ review_data' = del_review_data(review_data)
            /\ message' = "success"
            /\ pc' = "done"
            /\ raised' = ""
    /\ TrackDates(date_fields, departure_date, return_date)
    /\ UNCHANGED <<resources, desc_vars, approve_review, range_call,
                   date_vars, form_vars, adjusted_per_diem_daily, calls>>

\* mutant of Finalize: the review record is cleared before create_pdf is called
Finalize_ClearsRecordFirst ==
    /\ pc = "review"
    /\ review_data.present
    /\ ~review_pane_raises(review_data)
    /\ button_enabled(approve_review)
    /\ generate_pdf_now(TRUE, approve_review)
    /\ error_keys' = rendered_error_keys(error_keys, amount_text)
    /\ review_data' = NoRecord
    /\ IF create_pdf_raises(review_data) # ""
       THEN /\ raised' = create_pdf_raises(review_data)
            /\ message' = "error"
            /\ pc' = "error"
            /\ pdf' = NoRecord
       ELSE /\ pdf' = create_pdf(review_data, resources)
            /\ message' = "success"
            /\ pc' = "done"
            /\ raised' = ""
    /\ TrackDates(date_fields, departure_date, return_date)
    /\ UNCHANGED <<resources, desc_vars, approve_review, range_call,
                   date_vars, form_vars, adjusted_per_diem_daily, calls>>

\* "Finalize and Download PDF" is pressed with the approval box checked: one
\* run of main() with generate_now = True
Finalize ==
    /\ pc = "review"
    /\ review_data.present
    /\ ~review_pane_raises(review_data)
    /\ button_enabled(approve_review)
    /\ generate_pdf_now(TRUE, approve_review)
    /\ error_keys' = rendered_error_keys(error_keys, amount_text)
    /\ IF create_pdf_raises(review_data) # ""
       THEN \* caught by `except Exception as e`: st.error, no download button
            /\ raised' = create_pdf_raises(review_data)
            /\ message' = "error"
            /\ pc' = "error"
            /\ pdf' = NoRecord
            /\ UNCHANGED review_data
       ELSE /\ pdf' = create_pdf(review_data, resources)
            /\ review_data' = del_review_data(review_data)
            /\ message' = "success"
            /\ pc' = "done"
            /\ raised' = ""
    /\ TrackDates(date_fields, departure_date, return_date)
    /\ UNCHANGED <<resources, desc_vars, approve_review, range_call,
                   date_vars, form_vars, adjusted_per_diem_daily, calls>>

(***************************************************************************)
(* Travel dates and reruns: main(), lines 961-1051 and 1076-1158           *)
(*                                                                         *)
(* A date is the number of days after 01/01/25. Every user action on a     *)
(* widget outside the form reruns main(); Streamlit drops the value of a   *)
(* widget that a run does not render, so a field that comes back starts    *)
(* from its default.                                                       *)
(***************************************************************************)
RECURSIVE form_indices_from(_, _)
\* the day numbers the chunk loops visit from chunk_start on:
\*   for chunk_start in range(0, total_days, 7):
\*       for offset in range(min(7, total_days - chunk_start)):
form_indices_from(chunk_start, n) ==
    IF chunk_start >= n THEN <<>>
    ELSE [offset \in 1..Min(7, n - chunk_start) |-> chunk_start + offset]
         \o form_indices_from(chunk_start + 7, n)

form_indices(n) == form_indices_from(0, n)

\* the list a run collects from one row of n per-day widgets: a widget that
\* was on the page in the last run keeps its value, any other has its default
collect_row(old, n, default) ==
    LET idx == form_indices(n)
    IN  [k \in 1..Len(idx) |-> IF idx[k] <= Len(old) THEN old[idx[k]] ELSE default]

\* the texts of the number fields (a new field starts as '', lines 44-45)
collect_texts(texts, n) ==
    [c \in Categories |-> collect_row(texts[c], n, TextEmpty)]

\* selected_per_diem: the selectbox keeps its choice, index=2 is its default
selected_per_diem(amounts) == IF amounts # <<>> THEN amounts[1] ELSE TierInt(DefaultTier)

\* the form is not rendered: the values of its widgets are dropped
FormDropped ==
    /\ required_missing' = TRUE
    /\ amount_text' = [c \in Categories |-> <<>>]
    /\ per_diem_dates' = <<>>
    /\ mileage_dates' = <<>>
    /\ expense_dates' = <<>>
    /\ date_fields' = dropped_date_widgets(date_fields, Len(per_diem_dates))
    /\ UNCHANGED last_dates
    /\ per_diem_amounts' = <<>>
    /\ breakfast_checks' = <<>>
    /\ lunch_checks' = <<>>
    /\ dinner_checks' = <<>>

\* the texts number_text_input reads in a run that is not a submission: the
\* widgets are inside st.form("travel_form") (line 1053), so text typed since
\* the last submission is still in the browser and the script reads ''
script_texts(texts) ==
    IF pc = "typed"
    THEN [c \in Categories |-> [i \in 1..Len(texts[c]) |-> TextEmpty]]
    ELSE texts

\* the form is rendered for the dates dep..ret; the date fields hold the
\* defaults of lines 1028-1051
FormRendered(dep, ret) ==
    LET n == total_days(dep, ret)
    IN  /\ amount_text' = collect_texts(amount_text, n)
        /\ TrackDates(date_fields, dep, ret)
        /\ mileage_dates' = rendered_dates(date_fields', "mileage_date", n)
        /\ expense_dates' = rendered_dates(date_fields', "expense_date", n)
        /\ per_diem_dates' = rendered_dates(date_fields', "per_diem_date", n)
        /\ per_diem_amounts' =
               collect_row(<<>>, n, selected_per_diem(per_diem_amounts))
        /\ breakfast_checks' = collect_row(breakfast_checks, n, FALSE)
        /\ lunch_checks' = collect_row(lunch_checks, n, FALSE)
        /\ dinner_checks' = collect_row(dinner_checks, n, FALSE)
        /\ error_keys' = rendered_error_keys(error_keys, script_texts(amount_text'))

\* The first run of main() in a session
Open ==
    /\ pc = "start"
    /\ IF ~resources.template
       THEN \* load_excel_template() raises inside the try of line 961
            /\ pc' = "error"
            /\ raised' = "FileNotFoundError"
            /\ message' = "error"
            /\ UNCHANGED <<form_vars, error_keys, default_vars>>
       ELSE /\ FormRendered(departure_date, return_date)
            /\ pc' = "form"
            /\ raised' = ""
            /\ message' = ""
            /\ UNCHANGED required_missing
    /\ UNCHANGED <<resources, desc_vars, approve_review, range_call, date_vars,
                   adjusted_per_diem_daily, review_data, pdf, calls>>

\* mutant of ChangeDates: a run with new dates drops the stored record
ChangeDates_DropsRecord(dep, ret) ==
    /\ pc \notin {"start"}
    /\ resources.template
    /\ <<dep, ret>> # <<departure_date, return_date>>
    /\ departure_date' = dep
    /\ return_date' = ret
    /\ pdf' = NoRecord
    /\ IF ret < dep
       THEN \* st.error("Return Date must be ..."); st.stop()
            /\ pc' = "dates"
            /\ message' = "dates"
            /\ raised' = ""
            /\ FormDropped
            /\ UNCHANGED error_keys
       ELSE /\ FormRendered(dep, ret)
            /\ LET after == PaneAfterRun(review_data,
                                 IF pc = "typed" THEN "typed" ELSE "form")
               IN  /\ pc' = after.pc
                   /\ raised' = after.raised
                   /\ message' = after.message
            /\ required_missing' = (required_missing \/ ~FormOnPage)
    /\ approve_review' = checkbox_after_run(approve_review, pc')
    /\ review_data' = NoRecord
    /\ UNCHANGED <<resources, desc_vars, range_call,
                   adjusted_per_diem_daily, calls>>

\* A date input is changed: one run of main() with the new dates
ChangeDates(dep, ret) ==
    /\ pc \notin {"start"}
    /\ resources.template
    /\ <<dep, ret>> # <<departure_date, return_date>>
    /\ departure_date' = dep
    /\ return_date' = ret
    /\ pdf' = NoRecord
    /\ IF ret < dep
       THEN \* st.error("Return Date must be ..."); st.stop()
            /\ pc' = "dates"
            /\ message' = "dates"
            /\ raised' = ""
            /\ FormDropped
            /\ UNCHANGED error_keys
       ELSE /\ FormRendered(dep, ret)
            /\ LET after == PaneAfterRun(review_data,
                                 IF pc = "typed" THEN "typed" ELSE "form")
               IN  /\ pc' = after.pc
                   /\ raised' = after.raised
                   /\ message' = after.message
            /\ required_missing' = (required_missing \/ ~FormOnPage)
    /\ approve_review' = checkbox_after_run(approve_review, pc')
    /\ UNCHANGED <<resources, desc_vars, range_call,
                   adjusted_per_diem_daily, review_data, calls>>

\* The approval checkbox is clicked: one run of main() without a submission.
\* The form was on the page and the dates are the same, so every widget of
\* the form keeps its value
ToggleApproval ==
    /\ pc \in {"review", "done"}
    /\ error_keys' = rendered_error_keys(error_keys, amount_text)
    /\ pdf' = NoRecord
    /\ raised' = ""
    /\ message' = ""
    /\ IF review_data.present
       THEN \* the pane is rendered again, the checkbox holds its new value
            /\ pc' = "review"
            /\ approve_review' = ~approve_review
       ELSE \* the record was deleted by the run that made the PDF: no pane
            /\ pc' = "form"
            /\ approve_review' = FALSE
    /\ TrackDates(date_fields, departure_date, return_date)
    /\ UNCHANGED <<resources, desc_vars, range_call, date_vars,
                   form_vars, adjusted_per_diem_daily, review_data, calls>>

\* texts typed into a number field of the form
FillTexts == {TextNum(2500), TextBad}

\* the form as a run first renders it: nothing typed, nothing checked
FormIsBlank ==
    /\ required_missing
    /\ amount_text = [c \in Categories |->
                          [i \in 1..Len(per_diem_dates) |-> TextEmpty]]
    /\ breakfast_checks = [i \in 1..Len(per_diem_dates) |-> FALSE]
    /\ lunch_checks = [i \in 1..Len(per_diem_dates) |-> FALSE]
    /\ dinner_checks = [i \in 1..Len(per_diem_dates) |-> FALSE]

\* the number fields the user types into
FillCategories == {"mileage", "misc2"}

\* The user fills in the blank form, once per review record: the traveler
\* fields or not, and one text in the last day of one category (typed text
\* reaches main() with the next run)
FillForm ==
    /\ pc = "form"
    /\ FormIsBlank
    /\ ~review_data.present
    /\ \E missing \in BOOLEAN, c \in FillCategories, t \in FillTexts :
           /\ required_missing' = missing
           /\ amount_text' = [amount_text EXCEPT ![c][Len(per_diem_dates)] = t]
    /\ pc' = "typed"
    /\ UNCHANGED <<resources, desc_vars, approve_review, default_vars, range_call, date_vars, error_keys, mileage_dates, expense_dates, per_diem_dates,
                   per_diem_amounts, breakfast_checks, lunch_checks, dinner_checks,
                   adjusted_per_diem_daily, review_data, pdf, raised, message,
                   calls>>

\* texts a user types into a date field
DateEdits == {<<"T", "B", "D">>}

\* the indexes of the date fields the user types into
EditIndexes == {0, 1}

\* The user types a text into one date field of the form, with no other
\* edit waiting: the field is inside st.form("travel_form"), so the text
\* reaches st.session_state with the next submission
EditDateField ==
    /\ FormOnPage
    /\ date_fields = submitted_date_fields(date_fields, mileage_dates,
                                           expense_dates, per_diem_dates)
    /\ \E f \in DateFieldFamilies, i \in EditIndexes, t \in DateEdits :
           /\ i < Len(per_diem_dates)
           /\ date_fields[<<f, i>>] # t
           /\ mileage_dates' = IF f = "mileage_date"
                                THEN [mileage_dates EXCEPT ![i + 1] = t]
                                ELSE mileage_dates
           /\ expense_dates' = IF f = "expense_date"
                                THEN [expense_dates EXCEPT ![i + 1] = t]
                                ELSE expense_dates
           /\ per_diem_dates' = IF f = "per_diem_date"
                                 THEN [per_diem_dates EXCEPT ![i + 1] = t]
                                 ELSE per_diem_dates
    /\ UNCHANGED <<resources, desc_vars, approve_review, default_vars, range_call,
                   date_vars, error_keys, required_missing, amount_text,
                   per_diem_amounts, breakfast_checks, lunch_checks, dinner_checks,
                   adjusted_per_diem_daily, review_data, pdf, raised, message,
                   calls, pc>>

(***************************************************************************)
(* The per-diem loop, statement by statement: lines 643-677 of create_pdf  *)
(* (lines 1250-1274 of main are the same statements). Each invocation has  *)
(* its own argument, its own meal_deductions dict and its own lists.       *)
(***************************************************************************)
\* independent callers
Invocations == {1, 2}

\* an invocation that has not been called
Idle == [at |-> "idle"]

\* final_per_diem of day i, from the invocation's argument and table
loop_final_per_diem(form_data, table, i) ==
    LET dates == form_data.per_diem_dates
        base  == pdf_base_per_diem(form_data.per_diem_amounts, i)
        ded   == DeductionTotal(Deducts(table, base), form_data.breakfast_checks,
                     form_data.lunch_checks, form_data.dinner_checks, i)
    IN  FinalPerDiem(i, first_day_idx(dates), last_day_idx(dates), Pre75Total(base, ded))

\* the call is made with the stored record; lines 289-295 and 643-650
CallStart(p) ==
    /\ pc = "review"
    /\ review_data.present
    /\ calls[p].at = "idle"
    /\ calls' = [calls EXCEPT ![p] =
           [at |-> "loop",
            form_data |-> review_data,
            meal_deductions |-> meal_deductions,
            i |-> 1,
            adjusted_per_diem |-> <<>>,
            total_per_diem_calculated |-> 0]]
    /\ UNCHANGED <<resources, desc_vars, approve_review, default_vars, range_call, date_vars, error_keys, form_vars,
                   adjusted_per_diem_daily, review_data, pdf, raised, message, pc>>

\* mutant of LoopStep: adjusted_per_diem is one list shared by all invocations
LoopStep_SharedList(p) ==
    /\ calls[p].at = "loop"
    /\ calls[p].i <= Len(calls[p].form_data.per_diem_dates)
    /\ LET c == calls[p]
           v == IF HasDate(c.form_data.per_diem_dates[c.i])
                THEN loop_final_per_diem(c.form_data, c.meal_deductions, c.i)
                ELSE 0
       IN  calls' = [x \in Invocations |->
                IF calls[x].at = "idle" THEN calls[x]
                ELSE IF x = p
                THEN [c EXCEPT !.i = c.i + 1,
                               !.adjusted_per_diem = Append(c.adjusted_per_diem, v)]
                ELSE [calls[x] EXCEPT
                          !.adjusted_per_diem = Append(calls[x].adjusted_per_diem, v)]]
    /\ UNCHANGED <<resources, desc_vars, approve_review, default_vars, range_call, date_vars, error_keys, form_vars,
                   adjusted_per_diem_daily, review_data, pdf, raised, message, pc>>

\* one iteration of `for i in range(len(per_diem_dates))`, lines 652-675
LoopStep(p) ==
    /\ calls[p].at = "loop"
    /\ calls[p].i <= Len(calls[p].form_data.per_diem_dates)
    /\ LET c == calls[p]
           v == IF HasDate(c.form_data.per_diem_dates[c.i])
                THEN loop_final_per_diem(c.form_data, c.meal_deductions, c.i)
                ELSE 0
       IN  calls' = [calls EXCEPT ![p] =
                [c EXCEPT !.i = c.i + 1,
                          !.adjusted_per_diem = Append(c.adjusted_per_diem, v)]]
    /\ UNCHANGED <<resources, desc_vars, approve_review, default_vars, range_call, date_vars, error_keys, form_vars,
                   adjusted_per_diem_daily, review_data, pdf, raised, message, pc>>

\* the loop is over: total_per_diem_calculated = sum(daily_totals), line 677
LoopEnd(p) ==
    /\ calls[p].at = "loop"
    /\ calls[p].i > Len(calls[p].form_data.per_diem_dates)
    /\ calls' = [calls EXCEPT ![p] =
           [calls[p] EXCEPT !.at = "returned",
                            !.total_per_diem_calculated =
                                IntSum(calls[p].adjusted_per_diem)]]
    /\ UNCHANGED <<resources, desc_vars, approve_review, default_vars, range_call, date_vars, error_keys, form_vars,
                   adjusted_per_diem_daily, review_data, pdf, raised, message, pc>>

(***************************************************************************)
(* Inputs                                                                  *)
(***************************************************************************)
\* '' , ' ' and a date such as '01/02/25'
DateTexts == {<<>>, <<" ">>, <<"0", "1", "/", "0", "2", "/", "2", "5">>}

\* options of the "Per Diem Rate" selectbox
PER_DIEM_OPTIONS == {68, 74, 80, 86, 92}

\* tier entries create_pdf may meet: the options, None (falsy), a tier
\* outside the table, and a non-numeric string
TierEntries == {TierInt(t) : t \in PER_DIEM_OPTIONS}
               \cup {TierNone, TierInt(50), TierStr}

MileTexts == {TextEmpty, TextNum(1000), TextNum(5000), TextNaN}

CatTexts == {TextNum(2500), TextNum(-4000), TextNaN, TextBad}

\* what the other days of a category hold
RestTexts == {TextEmpty, TextNum(1250)}

OtherCategories == Categories \ {"mileage"}

FlagTriples == [b : BOOLEAN, l : BOOLEAN, d : BOOLEAN]

EmptyTexts(n) == [c \in Categories |-> [i \in 1..n |-> TextEmpty]]

\* no run of the per-diem loop has started
NoCalls == [p \in Invocations |-> Idle]

\* the state the first run of main() leaves when the template loads: nothing
\* flagged, nothing stored, the form on the page
\* no date field key is in st.session_state
NoDateFields == <<>>

\* generate_date_range is not running
NoRangeCall == [at |-> "idle"]

\* the date defaults of a session that was opened with the dates of the form
\* and whose date fields hold the texts of the form
FormDateFields ==
    /\ last_dates = [present |-> TRUE, departure |-> departure_date,
                     return |-> return_date]
    /\ date_fields = submitted_date_fields(NoDateFields, mileage_dates,
                                           expense_dates, per_diem_dates)

InitResults ==
    /\ approve_review = FALSE
    /\ FormDateFields
    /\ range_call = NoRangeCall
    /\ resources = [template |-> TRUE, left_logo |-> TRUE, right_logo |-> TRUE]
    /\ error_keys = {}
    /\ adjusted_per_diem_daily = <<>>
    /\ review_data = NoRecord
    /\ pdf = NoRecord
    /\ raised = ""
    /\ message = ""
    /\ calls = NoCalls
    /\ pc = "form"

\* Per-diem inputs: any date texts, one tier entry for the days that have
\* one, one meal-flag triple on one day or on all days, and per_diem_amounts
\* or the three check lists possibly shorter than per_diem_dates.
InitPerDiem ==
    \E n \in 1..MaxDays :
    \E dates \in [1..n -> DateTexts], tier \in TierEntries, F \in FlagTriples,
       S \in {{i} : i \in 1..n} \cup {1..n},
       k \in {0, n - 1, n}, short \in {"amounts", "checks"} :
        /\ per_diem_dates = dates
        /\ mileage_dates = per_diem_dates
        /\ expense_dates = per_diem_dates
        /\ per_diem_amounts = [i \in 1..(IF short = "amounts" THEN k ELSE n) |-> tier]
        /\ LET lc == IF short = "checks" THEN k ELSE n
           IN  /\ breakfast_checks = [i \in 1..lc |-> F.b /\ i \in S]
               /\ lunch_checks = [i \in 1..lc |-> F.l /\ i \in S]
               /\ dinner_checks = [i \in 1..lc |-> F.d /\ i \in S]
        /\ amount_text = EmptyTexts(n)
        /\ required_missing = FALSE
        /\ departure_date = 0
        /\ return_date = n - 1
        /\ misc_desc1 = <<>>
        /\ misc_desc2 = <<>>
        /\ InitResults

\* Expense inputs as the form collects them: every day dated, the selectbox
\* left at its default tier, any miles per day, and in no other category, one
\* of them or all of them one text typed on one day and the same text (or
\* nothing) on every other day.
InitTotals ==
    \E n \in 1..MaxDays :
    \E miles \in [1..n -> MileTexts], a \in CatTexts, b \in RestTexts, d \in 1..n,
       C \in {{}} \cup {{c} : c \in OtherCategories} \cup {OtherCategories},
       missing \in BOOLEAN :
        /\ C = {} => a = TextBad /\ b = TextEmpty
        /\ n = 1 => b = TextEmpty
        /\ amount_text = [c \in Categories |->
               IF c = "mileage" THEN miles
               ELSE [i \in 1..n |-> IF c \notin C THEN TextEmpty
                                    ELSE IF i = d THEN a ELSE b]]
        /\ per_diem_dates = [i \in 1..n |-> <<"0", "1", "/", "0", "2", "/", "2", "5">>]
        /\ mileage_dates = per_diem_dates
        /\ expense_dates = per_diem_dates
        /\ per_diem_amounts = [i \in 1..n |-> TierInt(DefaultTier)]
        /\ breakfast_checks = [i \in 1..n |-> FALSE]
        /\ lunch_checks = [i \in 1..n |-> FALSE]
        /\ dinner_checks = [i \in 1..n |-> FALSE]
        /\ required_missing = missing
        /\ departure_date = 0
        /\ return_date = n - 1
        /\ misc_desc1 = <<>>
        /\ misc_desc2 = <<>>
        /\ InitResults

\* departure and return dates picked in the two date inputs: trips of one
\* and two days, a return before the departure, and a trip of 61 days
TravelDates == {<<0, 0>>, <<0, 1>>, <<1, 1>>, <<1, 0>>, <<0, 60>>}

\* which of the workbook and the two logos can be loaded
Resources ==
    {[template |-> TRUE, left_logo |-> TRUE, right_logo |-> TRUE],
     [template |-> TRUE, left_logo |-> FALSE, right_logo |-> FALSE],
     [template |-> FALSE, left_logo |-> TRUE, right_logo |-> TRUE]}

\* A session before its first run: both date inputs show today, no widget
\* has a value yet
InitSession ==
    /\ misc_desc1 = <<>>
    /\ misc_desc2 = <<>>
    /\ approve_review = FALSE
    /\ last_dates = NoRecord
    /\ date_fields = NoDateFields
    /\ range_call = NoRangeCall
    /\ resources \in Resources
    /\ departure_date = 0
    /\ return_date = 0
    /\ required_missing = TRUE
    /\ amount_text = [c \in Categories |-> <<>>]
    /\ per_diem_dates = <<>>
    /\ mileage_dates = per_diem_dates
    /\ expense_dates = per_diem_dates
    /\ per_diem_amounts = <<>>
    /\ breakfast_checks = <<>>
    /\ lunch_checks = <<>>
    /\ dinner_checks = <<>>
    /\ error_keys = {}
    /\ adjusted_per_diem_daily = <<>>
    /\ review_data = NoRecord
    /\ pdf = NoRecord
    /\ raised = ""
    /\ message = ""
    /\ calls = NoCalls
    /\ pc = "start"

\* tiers of the records the loop is run on: a recognized one, one outside
\* the table, none
CalcTiers == {TierInt(68), TierInt(50), TierNone}

\* Records for the statement-by-statement loop: any date texts, one tier,
\* the three meals flagged on every day or on none
InitCalc ==
    \E n \in 1..MaxDays :
    \E dates \in [1..n -> DateTexts], tier \in CalcTiers, f \in BOOLEAN :
        /\ per_diem_dates = dates
        /\ mileage_dates = per_diem_dates
        /\ expense_dates = per_diem_dates
        /\ per_diem_amounts = [i \in 1..n |-> tier]
        /\ breakfast_checks = [i \in 1..n |-> f]
        /\ lunch_checks = [i \in 1..n |-> f]
        /\ dinner_checks = [i \in 1..n |-> f]
        /\ amount_text = EmptyTexts(n)
        /\ required_missing = FALSE
        /\ departure_date = 0
        /\ return_date = n - 1
        /\ misc_desc1 = <<>>
        /\ misc_desc2 = <<>>
        /\ InitResults

Init == InitPerDiem \/ InitTotals

Next == Submit \/ ToggleApproval \/ Finalize

Spec == Init /\ [][Next]_vars

\* the per-diem calculation over its input domain
SpecPerDiem == InitPerDiem /\ [][Next]_vars

\* the expense totals over what the form can collect
SpecTotals == InitTotals /\ [][Next]_vars

NextSession ==
    \/ Open
    \/ \E d \in TravelDates : ChangeDates(d[1], d[2])
    \/ FillForm
    \/ Submit
    \/ ToggleApproval
    \/ Finalize

NextCalc ==
    \/ Submit
    \/ \E p \in Invocations : CallStart(p) \/ LoopStep(p) \/ LoopEnd(p)

\* two independent invocations of the per-diem loop on one stored record
SpecCalc == InitCalc /\ [][NextCalc]_vars

\* a session of reruns: date changes, a filled form, submissions, approval
SpecSession == InitSession /\ [][NextSession]_vars

NextDates ==
    \/ Open
    \/ \E d \in TravelDates : ChangeDates(d[1], d[2])
    \/ EditDateField
    \/ Submit

\* a session of reruns in which the user edits date fields: date changes,
\* edits, submissions of a form whose required fields are empty
SpecDates == InitSession /\ [][NextDates]_vars

(***************************************************************************)
(* generate_date_range, statement by statement: lines 242-259              *)
(***************************************************************************)

\* the arguments of the runs: a missing date, dates at the start, in and at
\* the end of a month, ranges that are empty, shorter and longer than max_days
RangeStarts == {NoDate, 0, 30, 58}

RangeEnds == {NoDate, 0, 1, 31, 58, 64}

RangeMaxDays == 0..(MaxDays + 1)

\* generate_date_range(start_date, end_date, max_days) is entered: lines 244-248
RangeEnter ==
    /\ range_call.at = "idle"
    /\ \E start_date \in RangeStarts, end_date \in RangeEnds, max_days \in RangeMaxDays :
        range_call' =
            IF start_date = NoDate \/ end_date = NoDate
            THEN [at |-> "returned", start_date |-> start_date,
                  end_date |-> end_date, max_days |-> max_days,
                  current_date |-> NoDate,
                  dates |-> [i \in 1..max_days |-> <<>>]]
            ELSE [at |-> "loop", start_date |-> start_date,
                  end_date |-> end_date, max_days |-> max_days,
                  current_date |-> start_date, dates |-> <<>>]
    /\ UNCHANGED <<resources, date_vars, error_keys, form_vars, desc_vars,
                   approve_review, default_vars, adjusted_per_diem_daily,
                   review_data, pdf, raised, message, calls, pc>>

\* mutant of range_loop_continues: the loop runs to end_date whatever max_days is
range_loop_continues_NoLimit(call) ==
    call.current_date <= call.end_date

\* while current_date <= end_date and len(dates) < max_days:
range_loop_continues(call) ==
    call.current_date <= call.end_date /\ Len(call.dates) < call.max_days

\* one pass of the first loop, lines 249-253
RangeAppendDate ==
    /\ range_call.at = "loop"
    /\ range_loop_continues(range_call)
    /\ range_call' = [range_call EXCEPT
            !.dates = Append(@, strftime(range_call.current_date)),
            !.current_date = @ + 1]
    /\ UNCHANGED <<resources, date_vars, error_keys, form_vars, desc_vars,
                   approve_review, default_vars, adjusted_per_diem_daily,
                   review_data, pdf, raised, message, calls, pc>>

\* the first loop is left
RangeLoopExit ==
    /\ range_call.at = "loop"
    /\ ~range_loop_continues(range_call)
    /\ range_call' = [range_call EXCEPT !.at = "fill"]
    /\ UNCHANGED <<resources, date_vars, error_keys, form_vars, desc_vars,
                   approve_review, default_vars, adjusted_per_diem_daily,
                   review_data, pdf, raised, message, calls, pc>>

\* one pass of the second loop, lines 256-257: dates.append('')
RangeAppendEmpty ==
    /\ range_call.at = "fill"
    /\ Len(range_call.dates) < range_call.max_days
    /\ range_call' = [range_call EXCEPT !.dates = Append(@, <<>>)]
    /\ UNCHANGED <<resources, date_vars, error_keys, form_vars, desc_vars,
                   approve_review, default_vars, adjusted_per_diem_daily,
                   review_data, pdf, raised, message, calls, pc>>

\* return dates, line 259
RangeReturn ==
    /\ range_call.at = "fill"
    /\ ~(Len(range_call.dates) < range_call.max_days)
    /\ range_call' = [range_call EXCEPT !.at = "returned"]
    /\ UNCHANGED <<resources, date_vars, error_keys, form_vars, desc_vars,
                   approve_review, default_vars, adjusted_per_diem_daily,
                   review_data, pdf, raised, message, calls, pc>>

InitDateRange ==
    /\ per_diem_dates = <<>>
    /\ mileage_dates = per_diem_dates
    /\ expense_dates = per_diem_dates
    /\ per_diem_amounts = <<>>
    /\ breakfast_checks = <<>>
    /\ lunch_checks = <<>>
    /\ dinner_checks = <<>>
    /\ amount_text = EmptyTexts(0)
    /\ required_missing = TRUE
    /\ departure_date = 0
    /\ return_date = 0
    /\ misc_desc1 = <<>>
    /\ misc_desc2 = <<>>
    /\ InitResults

NextDateRange ==
    \/ RangeEnter
    \/ RangeAppendDate
    \/ RangeLoopExit
    \/ RangeAppendEmpty
    \/ RangeReturn

\* a run of generate_date_range that is started is carried on: nothing in the
\* function waits for anything
SpecDateRange ==
    InitDateRange /\ [][NextDateRange]_vars /\ WF_vars(NextDateRange)

(***************************************************************************)
(* The tables of the PDF over every day count of the form                  *)
(***************************************************************************)

\* what every number field of the filled forms holds
TableTexts == {TextEmpty, TextNum(10000)}

\* A form of n days for every n the form can have, with the date fields as
\* the defaults leave them and every number field holding the same text
InitTables ==
    \E n \in 1..MaxFormDays, t \in TableTexts :
        /\ per_diem_dates = generate_date_range(0, n - 1, n)
        /\ mileage_dates = per_diem_dates
        /\ expense_dates = per_diem_dates
        /\ per_diem_amounts = [i \in 1..n |-> TierInt(DefaultTier)]
        /\ breakfast_checks = [i \in 1..n |-> FALSE]
        /\ lunch_checks = [i \in 1..n |-> FALSE]
        /\ dinner_checks = [i \in 1..n |-> FALSE]
        /\ amount_text = [c \in Categories |-> [i \in 1..n |-> t]]
        /\ required_missing = FALSE
        /\ departure_date = 0
        /\ return_date = n - 1
        /\ misc_desc1 = <<>>
        /\ misc_desc2 = <<>>
        /\ InitResults

SpecTables == InitTables /\ [][Next]_vars

(***************************************************************************)
(* The miscellaneous rows: descriptions and amounts                        *)
(***************************************************************************)

\* texts of a description field: empty, blank, and a word after a space
DescTexts == {<<>>, <<" ">>, <<" ", "T">>}

\* texts of the number fields of the two miscellaneous rows
Misc1Texts == {TextEmpty, TextNum(2500)}

Misc2Texts == {TextEmpty, TextNum(1250)}

\* A form whose miscellaneous rows hold an amount or nothing on one day, with
\* every combination of description texts
InitMisc ==
    \E n \in 1..MaxDays :
    \E d \in 1..n, m1 \in Misc1Texts, m2 \in Misc2Texts,
       desc1 \in DescTexts, desc2 \in DescTexts :
        /\ amount_text = [c \in Categories |->
               [i \in 1..n |-> IF i # d THEN TextEmpty
                               ELSE IF c = "misc" THEN m1
                               ELSE IF c = "misc2" THEN m2
                               ELSE TextEmpty]]
        /\ misc_desc1 = desc1
        /\ misc_desc2 = desc2
        /\ per_diem_dates = generate_date_range(0, n - 1, n)
        /\ mileage_dates = per_diem_dates
        /\ expense_dates = per_diem_dates
        /\ per_diem_amounts = [i \in 1..n |-> TierInt(DefaultTier)]
        /\ breakfast_checks = [i \in 1..n |-> FALSE]
        /\ lunch_checks = [i \in 1..n |-> FALSE]
        /\ dinner_checks = [i \in 1..n |-> FALSE]
        /\ required_missing = FALSE
        /\ departure_date = 0
        /\ return_date = n - 1
        /\ InitResults

SpecMisc == InitMisc /\ [][Next]_vars

(***************************************************************************)
(* Properties                                                              *)
(***************************************************************************)
\* day i holds a non-empty date: neither '' nor whitespace only
Dated(i) == per_diem_dates[i] \notin {<<>>, <<" ">>}

DatedDays == {i \in 1..Len(per_diem_dates) : Dated(i)}

FirstDated(i) == Dated(i) /\ \A j \in DatedDays : i <= j

LastDated(i) == Dated(i) /\ \A j \in DatedDays : j <= i

\* three quarters of an amount in mills
ThreeQuarters(x) == (3 * x) \div 4

\* the pre-adjustment total of day i: max(0, base rate - deduction)
PreAdjustment(i) ==
    LET base == main_base_per_diem(per_diem_amounts, i)
    IN  Pre75Total(base, DeductionTotal(Deducts(meal_deductions, base),
                       breakfast_checks, lunch_checks, dinner_checks, i))

\* the per-day values of day i required by the first/last-day rule
ValueByPosition(i) ==
    IF FirstDated(i) \/ LastDated(i) THEN Round2(ThreeQuarters(PreAdjustment(i)))
    ELSE Round2(PreAdjustment(i))

\* C1: with at least one dated day, exactly the first and the last dated day
\* get round(0.75 x pre-adjustment total, 2); every other dated day gets
\* round(pre-adjustment total, 2). Both for main's per-day list and for the
\* list create_pdf computes again.
C1_FirstAndLastDatedDayGet75 ==
    /\ pc = "review" =>
           \A i \in DatedDays : adjusted_per_diem_daily[i] = ValueByPosition(i)
    /\ pc = "done" =>
           \A i \in DatedDays : pdf.adjusted_per_diem[i] = ValueByPosition(i)

\* a three-day trip at tier 92: 69.00, 92.00, 69.00
C1_Witness ==
    /\ pc = "done"
    /\ DatedDays = {1, 2, 3}
    /\ adjusted_per_diem_daily = <<69000, 92000, 69000>>
    /\ pdf.adjusted_per_diem = <<69000, 92000, 69000>>

\* day i carries the recognized tier t
HasTier(i, t) == i <= Len(per_diem_amounts) /\ per_diem_amounts[i] = TierInt(t)

\* the sum of a table row's constants for the meals flagged on day i (dollars)
FlaggedMeals(row, i) ==
    (IF Checked(breakfast_checks, i) THEN row.breakfast ELSE 0)
    + (IF Checked(lunch_checks, i) THEN row.lunch ELSE 0)
    + (IF Checked(dinner_checks, i) THEN row.dinner ELSE 0)

\* C2: for each of the five tiers and each combination of meal flags the
\* day's deduction is the sum of that tier's constants for the flagged meals,
\* on first, interior and last days alike: it is the reduction create_pdf
\* prints, and the one subtracted from the base rate in both calculations.
C2_DeductionIsSumOfFlaggedMeals ==
    \A t \in PER_DIEM_OPTIONS :
        /\ pc = "done" =>
               \A i \in DatedDays : HasTier(i, t) =>
                   /\ pdf.total_reductions[i] = 1000 * FlaggedMeals(meal_deductions[t], i)
                   /\ pdf.daily_meal_totals[i] =
                          1000 * (t - FlaggedMeals(meal_deductions[t], i))
        /\ pc = "review" =>
               \A i \in DatedDays : HasTier(i, t) =>
                   adjusted_per_diem_daily[i] =
                       IF FirstDated(i) \/ LastDated(i)
                       THEN Round2(ThreeQuarters(
                                1000 * (t - FlaggedMeals(main_meal_deductions[t], i))))
                       ELSE 1000 * (t - FlaggedMeals(main_meal_deductions[t], i))

\* an interior day at tier 74 with all three meals flagged: 18 + 20 + 31
C2_Witness ==
    /\ pc = "done"
    /\ DatedDays = {1, 2, 3}
    /\ HasTier(2, 74)
    /\ Checked(breakfast_checks, 2) /\ Checked(lunch_checks, 2) /\ Checked(dinner_checks, 2)
    /\ pdf.total_reductions[2] = 69000
    /\ pdf.daily_meal_totals[2] = 5000

\* day i's tier entry is not one of the five recognized values
UnrecognizedTier(i) ==
    i > Len(per_diem_amounts)
    \/ per_diem_amounts[i].kind # "int"
    \/ per_diem_amounts[i].v \notin PER_DIEM_OPTIONS

\* the stored value of a tier-80 day with the flags and position of day i
Tier80Value(i) ==
    LET row == meal_deductions[80]
    IN  IF FirstDated(i) \/ LastDated(i)
        THEN Round2(ThreeQuarters(1000 * (80 - FlaggedMeals(row, i))))
        ELSE Round2(1000 * (80 - FlaggedMeals(row, i)))

\* C3: a day whose tier is not one of 68, 74, 80, 86, 92 gets the value of a
\* tier-80 day with the same meal flags and position.
C3_UnrecognizedTierFallsBackTo80 ==
    pc = "review" =>
        \A i \in DatedDays : UnrecognizedTier(i) =>
            adjusted_per_diem_daily[i] = Tier80Value(i)

\* C4: the calculation never raises, whatever the per-day data is (short
\* amount or flag lists, missing or malformed tiers), and yields a value for
\* every day.
C4_CalculationNeverRaises ==
    /\ raised = ""
    /\ pc = "review" => Len(adjusted_per_diem_daily) = Len(per_diem_dates)
    /\ pc = "done" => Len(pdf.adjusted_per_diem) = Len(per_diem_dates)

\* round(sum(miles x 0.70), 0): the miles are added up, taken times 0.70 and
\* rounded once
RoundedOnce(miles) ==
    IF \E i \in 1..Len(miles) : miles[i].nan THEN NaN
    ELSE Fl(RoundHalfEven((7 * IntSum([i \in 1..Len(miles) |-> miles[i].v])) \div 10, 1000))

\* C5: the mileage total stored at submission is round(sum(miles x 0.70), 0).
C5_MileageTotalRoundedOnce ==
    pc = "review" =>
        review_data.total_mileage = RoundedOnce(review_data.mileage_amounts)

\* 5 + 5 + 5 miles: 10.50 rounds to 10, where rounding each day gives 12
C5_Witness ==
    /\ pc = "review"
    /\ review_data.mileage_amounts = <<Fl(5000), Fl(5000), Fl(5000)>>
    /\ review_data.total_mileage = Fl(10000)

\* C6: the grand total printed in the PDF mileage table equals the Mileage
\* sub-total printed in the totals table.
C6_MileageTableTotalEqualsSubTotal ==
    pc = "done" => pdf.grand_mileage_rate_total = pdf.total_mileage

\* the sum of the eight category totals of a record
SumOfTotals(r) ==
    FAdd(FAdd(FAdd(FAdd(r.total_mileage, r.total_airfare),
              FAdd(r.total_ground_transport, r.total_parking)),
         FAdd(FAdd(r.total_lodging, r.total_baggage), r.total_misc)),
         Fl(r.total_per_diem))

\* a sum floored at 0
FlooredAt0(x) == IF x.nan THEN x ELSE IF x.v < 0 THEN Fl(0) ELSE x

\* C7: Total Amount Due, as stored at submission and as printed in the PDF,
\* is the sum of the eight category totals floored at 0, and is never negative.
C7_GrandTotalIsFlooredSum ==
    /\ pc = "review" =>
           /\ review_data.total_amount_due = FlooredAt0(SumOfTotals(review_data))
           /\ ~(review_data.total_amount_due.v < 0)
    /\ pc = "done" =>
           /\ pdf.total_amount_due = FlooredAt0(SumOfTotals(pdf))
           /\ ~(pdf.total_amount_due.v < 0)

\* C8: when exactly one day is dated it is first and last at once and gets
\* round(0.75 x pre-adjustment total, 2): the factor is applied once.
C8_SingleDayGets75Once ==
    \A i \in DatedDays : DatedDays = {i} =>
        /\ pc = "review" =>
               adjusted_per_diem_daily[i] = Round2(ThreeQuarters(PreAdjustment(i)))
        /\ pc = "done" =>
               pdf.adjusted_per_diem[i] = Round2(ThreeQuarters(pdf.daily_meal_totals[i]))

\* the only dated day is the second of three, at tier 80 with no meals: 60.00
C8_Witness ==
    /\ pc = "done"
    /\ Len(per_diem_dates) = 3
    /\ DatedDays = {2}
    /\ pdf.daily_meal_totals[2] = 80000
    /\ pdf.adjusted_per_diem = <<0, 60000, 0>>
    /\ adjusted_per_diem_daily = <<0, 60000, 0>>

\* C9: whatever the tier and the meal flags, the pre-adjustment total, every
\* per-day value and the per-diem total are at least 0.
C9_PerDiemNeverNegative ==
    /\ pc = "review" =>
           /\ \A i \in 1..Len(adjusted_per_diem_daily) : adjusted_per_diem_daily[i] >= 0
           /\ review_data.total_per_diem >= 0
    /\ pc = "done" =>
           /\ \A i \in 1..Len(pdf.daily_meal_totals) : pdf.daily_meal_totals[i] >= 0
           /\ \A i \in 1..Len(pdf.adjusted_per_diem) : pdf.adjusted_per_diem[i] >= 0
           /\ pdf.total_per_diem_calculated >= 0

\* tier 50 with all three meals flagged: 50 - 75 is floored to 0
C9_Witness ==
    /\ pc = "done"
    /\ \E i \in DatedDays :
           /\ i <= Len(per_diem_amounts) /\ per_diem_amounts[i] = TierInt(50)
           /\ Checked(breakfast_checks, i) /\ Checked(lunch_checks, i)
           /\ Checked(dinner_checks, i)
           /\ pdf.total_reductions[i] = 75000
           /\ pdf.daily_meal_totals[i] = 0
           /\ pdf.adjusted_per_diem[i] = 0

\* the sum of s over the dated days
RECURSIVE SumOverDated(_, _)
SumOverDated(s, n) ==
    IF n = 0 THEN 0
    ELSE SumOverDated(s, n - 1) + (IF Dated(n) THEN s[n] ELSE 0)

\* C10: a day whose date is empty or whitespace contributes 0 to the per-day
\* list and to the per-diem total whatever its tier and flags, and the 75%
\* rule goes to the first and last dated day, never to it.
C10_UndatedDayContributesNothing ==
    /\ pc = "review" =>
           /\ \A i \in 1..Len(per_diem_dates) :
                  /\ ~Dated(i) => adjusted_per_diem_daily[i] = 0
                  /\ FirstDated(i) \/ LastDated(i) =>
                         adjusted_per_diem_daily[i] = Round2(ThreeQuarters(PreAdjustment(i)))
           /\ review_data.total_per_diem =
                  SumOverDated(adjusted_per_diem_daily, Len(per_diem_dates))
    /\ pc = "done" =>
           /\ \A i \in 1..Len(per_diem_dates) :
                  /\ ~Dated(i) => pdf.adjusted_per_diem[i] = 0
                  /\ FirstDated(i) \/ LastDated(i) =>
                         pdf.adjusted_per_diem[i] =
                             Round2(ThreeQuarters(pdf.daily_meal_totals[i]))
           /\ pdf.total_per_diem_calculated =
                  SumOverDated(pdf.adjusted_per_diem, Len(per_diem_dates))

\* a whitespace-only first day with breakfast flagged, then two dated days
C10_Witness ==
    /\ pc = "done"
    /\ per_diem_dates[1] = <<" ">>
    /\ Checked(breakfast_checks, 1)
    /\ DatedDays = {2, 3}
    /\ pdf.adjusted_per_diem = <<0, 60000, 60000>>
    /\ pdf.total_per_diem_calculated = 120000

\* the sum of a list of per-day amounts
DaySum(xs) ==
    IF \E i \in 1..Len(xs) : xs[i].nan THEN NaN
    ELSE Fl(IntSum([i \in 1..Len(xs) |-> xs[i].v]))

\* C11: the airfare, ground transport, parking, lodging and baggage totals
\* are the sums of the category's per-day values, the miscellaneous total is
\* the sum of both miscellaneous rows, and each grand total create_pdf
\* computes for the expense table equals the total computed at submission.
C11_CategoryTotalsAreDaySums ==
    /\ pc = "review" =>
           /\ review_data.total_airfare = DaySum(review_data.airfare)
           /\ review_data.total_ground_transport = DaySum(review_data.ground_transport)
           /\ review_data.total_parking = DaySum(review_data.parking)
           /\ review_data.total_lodging = DaySum(review_data.lodging)
           /\ review_data.total_baggage = DaySum(review_data.baggage)
           /\ review_data.total_misc =
                  FAdd(DaySum(review_data.misc), DaySum(review_data.misc2))
    /\ pc = "done" =>
           /\ pdf.grand_af = pdf.total_airfare
           /\ pdf.grand_gt = pdf.total_ground_transport
           /\ pdf.grand_pk = pdf.total_parking
           /\ pdf.grand_lg = pdf.total_lodging
           /\ pdf.grand_bg = pdf.total_baggage
           /\ FAdd(pdf.grand_m1, pdf.grand_m2) = pdf.total_misc

\* 1.25 + 2.50 + 1.25 in every category: 5.00 each, 10.00 miscellaneous
C11_Witness ==
    /\ pc = "done"
    /\ amount_text["airfare"] = <<TextNum(1250), TextNum(2500), TextNum(1250)>>
    /\ amount_text["misc2"] = <<TextNum(1250), TextNum(2500), TextNum(1250)>>
    /\ pdf.grand_af = Fl(5000)
    /\ pdf.total_airfare = Fl(5000)
    /\ pdf.grand_m1 = Fl(5000)
    /\ pdf.grand_m2 = Fl(5000)
    /\ pdf.total_misc = Fl(10000)

\* some amount field on the page holds text that is not a number
NonNumericOnPage ==
    \E c \in Categories : \E i \in 1..Len(amount_text[c]) :
        amount_text[c][i].kind = "bad"

\* the run shows a message and rejects: nothing is stored, nothing generated
RejectedWith(messages) ==
    /\ message' \in messages
    /\ pc' \in {"rejected", "dates"}
    /\ review_data' = review_data
    /\ pdf' = NoRecord

C13_ResourceFailureIsNotFatal ==
    /\ (pc # "start" /\ return_date >= departure_date) => FormOnPage /\ raised = ""
    /\ pc = "done" =>
           /\ pdf.present
           /\ pdf.left_logo = (IF resources.left_logo THEN "Image" ELSE "")
           /\ pdf.right_logo = (IF resources.right_logo THEN "Image" ELSE "")

\* C14: when create_pdf raises while the document is rendered, the exception
\* is caught by the handler of line 1401 and shown, no download is offered,
\* and the review record stored at submission is still in the session.
C14_RenderingFailureIsCaught ==
    [][ (Finalize /\ create_pdf_raises(review_data) # "") =>
            /\ pc' = "error"
            /\ message' = "error"
            /\ raised' = create_pdf_raises(review_data)
            /\ ~pdf'.present
            /\ review_data'.present
            /\ review_data' = review_data
      ]_vars

C14_Witness ==
    /\ pc = "error"
    /\ raised = "IndexError"
    /\ message = "error"
    /\ review_data.present
    /\ create_pdf_raises(review_data) = "IndexError"
    /\ ~pdf.present

\* C15: whenever the form is on the page for dates with departure <= return,
\* the day count is min(return - departure + 1, 60), it lies in 1..60, and
\* every per-day sequence of the form (mileage, the expense rows, per-diem
\* dates, amounts and meal flags) has exactly that many entries.
C15_DayCountBoundsEveryRow ==
    (FormOnPage /\ departure_date <= return_date) =>
        LET n == total_days(departure_date, return_date)
        IN  /\ n = Min((return_date - departure_date) + 1, 60)
            /\ n \in 1..60
            /\ \A c \in Categories : Len(amount_text[c]) = n
            /\ Len(per_diem_dates) = n
            /\ Len(per_diem_amounts) = n
            /\ Len(breakfast_checks) = n
            /\ Len(lunch_checks) = n
            /\ Len(dinner_checks) = n

C15_Witness ==
    /\ pc = "review"
    /\ return_date - departure_date = 60
    /\ Len(per_diem_dates) = 60
    /\ Len(amount_text["mileage"]) = 60
    /\ Len(review_data.per_diem_amounts) = 60
    /\ per_diem_dates[60] = <<"0", "3", "/", "0", "1", "/", "2", "5">>

\* C16: an invocation of the per-diem calculation reads only its argument
\* and the deduction table: at every step of every interleaving of two
\* invocations the argument still equals the record it was called with, the
\* table is the constant one, and invocations that have returned hold the
\* same per-day list and the same total, those of an uninterrupted run.
C16_InvocationsAreIndependent ==
    /\ \A p \in Invocations :
           calls[p].at # "idle" =>
               /\ calls[p].form_data = review_data
               /\ calls[p].meal_deductions = meal_deductions
               /\ calls[p].at = "returned" =>
                      /\ calls[p].adjusted_per_diem =
                             pdf_adjusted_per_diem(review_data.per_diem_dates,
                                 review_data.per_diem_amounts,
                                 review_data.breakfast_checks,
                                 review_data.lunch_checks,
                                 review_data.dinner_checks)
                      /\ calls[p].total_per_diem_calculated =
                             IntSum(calls[p].adjusted_per_diem)
    /\ \A p, q \in Invocations :
           (calls[p].at = "returned" /\ calls[q].at = "returned") =>
               /\ calls[p].adjusted_per_diem = calls[q].adjusted_per_diem
               /\ calls[p].total_per_diem_calculated =
                      calls[q].total_per_diem_calculated

C16_Witness ==
    /\ \A p \in Invocations : calls[p].at = "returned"
    /\ Len(calls[1].adjusted_per_diem) = 3
    /\ calls[1].adjusted_per_diem[1] = 51000
    /\ calls[2].adjusted_per_diem[2] = 68000
    /\ calls[2].total_per_diem_calculated = 170000

\* the day i the worked example is about: dated, tier 80, breakfast and
\* lunch flagged, dinner not
BreakfastLunchDayAt80(i) ==
    /\ HasDate(per_diem_dates[i])
    /\ i <= Len(per_diem_amounts) /\ per_diem_amounts[i] = TierInt(80)
    /\ Checked(breakfast_checks, i) /\ Checked(lunch_checks, i)
    /\ ~Checked(dinner_checks, i)

\* a 3-day trip at tier 68, every day dated, no meal flagged
ThreeDaysAt68NoMeals ==
    /\ Len(per_diem_dates) = 3
    /\ \A i \in 1..3 : HasDate(per_diem_dates[i])
    /\ per_diem_amounts = [i \in 1..3 |-> TierInt(68)]
    /\ \A i \in 1..3 : ~Checked(breakfast_checks, i) /\ ~Checked(lunch_checks, i)
                           /\ ~Checked(dinner_checks, i)

\* C17: the worked examples. A 3-day trip at tier 68 with no meal flagged
\* gets 51.00, 68.00, 51.00 and a per-diem total of 170.00; a tier-80 day
\* with breakfast and lunch flagged gets 38.00 as an interior day and 28.50
\* as the last day. Both hold for the values stored at submission and for
\* the values create_pdf prints.
C17_WorkedExamples ==
    /\ (pc = "review" /\ ThreeDaysAt68NoMeals) =>
           /\ adjusted_per_diem_daily = <<51000, 68000, 51000>>
           /\ review_data.total_per_diem = 170000
    /\ (pc = "done" /\ ThreeDaysAt68NoMeals) =>
           /\ pdf.adjusted_per_diem = <<51000, 68000, 51000>>
           /\ pdf.total_per_diem_calculated = 170000
    /\ \A i \in 1..Len(per_diem_dates) :
           BreakfastLunchDayAt80(i) =>
               LET interior == i # first_day_idx(per_diem_dates)
                               /\ i # last_day_idx(per_diem_dates)
                   expected == IF interior THEN 38000 ELSE 28500
               IN  /\ pc = "review" => adjusted_per_diem_daily[i] = expected
                   /\ pc = "done" => pdf.adjusted_per_diem[i] = expected

C17_Witness ==
    /\ pc = "done"
    /\ ThreeDaysAt68NoMeals
    /\ pdf.adjusted_per_diem = <<51000, 68000, 51000>>
    /\ pdf.total_per_diem_calculated = 170000

\* the second example is reached too: an interior and a last day at tier 80
C17_SecondExampleReached ==
    /\ pc = "review"
    /\ Len(per_diem_dates) = 3
    /\ BreakfastLunchDayAt80(2) /\ BreakfastLunchDayAt80(3)
    /\ adjusted_per_diem_daily[2] = 38000
    /\ adjusted_per_diem_daily[3] = 28500

\* miles a day's field may be changed to (thousandths of a mile)
ChangedMiles == {0, 1000, 5000}

\* |x|
Abs(x) == IF x < 0 THEN -x ELSE x

\* round(D * 0.70, 0) in mills, D in thousandths of a mile
RoundedRateOf(D) == RoundHalfEven((7 * D) \div 10, 1000)

\* C18: for the mileage amounts of a stored record (numbers, not NaN),
\* changing the miles of one day by D changes the mileage total by
\* round(D x 0.70, 0) to within one dollar.
C18_MileageSensitivity ==
    (pc = "review" /\ \A i \in 1..Len(review_data.mileage_amounts) :
                         ~review_data.mileage_amounts[i].nan) =>
        \A i \in 1..Len(review_data.mileage_amounts), m \in ChangedMiles :
            LET amounts == review_data.mileage_amounts
                changed == [amounts EXCEPT ![i] = Fl(m)]
                D       == m - amounts[i].v
            IN  /\ review_data.total_mileage = main_total_mileage(amounts)
                /\ Abs((main_total_mileage(changed).v - review_data.total_mileage.v)
                       - RoundedRateOf(D)) <= 1000

\* 1 + 5 miles give 4.20 -> 4 dollars; 5 + 5 miles give 7 dollars: a change
\* of 4 miles changes the total by 3 = round(2.80)
C18_Witness ==
    /\ pc = "review"
    /\ review_data.mileage_amounts = <<Fl(1000), Fl(5000)>>
    /\ review_data.total_mileage = Fl(4000)
    /\ main_total_mileage(<<Fl(5000), Fl(5000)>>) = Fl(7000)
    /\ RoundedRateOf(4000) = 3000

\* C19: the per-day list main stores at submission and the one create_pdf
\* computes again from the stored record are equal element by element, so
\* the total printed under the per-diem table equals the Per Diem sub-total
\* of the totals table, which is the total the review pane shows.
C19_PerDiemPathsAgree ==
    /\ pc = "review" =>
           LET again == pdf_adjusted_per_diem(review_data.per_diem_dates,
                            review_data.per_diem_amounts, review_data.breakfast_checks,
                            review_data.lunch_checks, review_data.dinner_checks)
           IN  /\ Len(again) = Len(adjusted_per_diem_daily)
               /\ \A i \in 1..Len(again) : again[i] = adjusted_per_diem_daily[i]
               /\ IntSum(again) = review_data.total_per_diem
    /\ pc = "done" =>
           /\ Len(pdf.adjusted_per_diem) = Len(adjusted_per_diem_daily)
           /\ \A i \in 1..Len(pdf.adjusted_per_diem) :
                  pdf.adjusted_per_diem[i] = adjusted_per_diem_daily[i]
           /\ pdf.total_per_diem_calculated = pdf.total_per_diem

C19_Witness ==
    /\ pc = "done"
    /\ Len(pdf.adjusted_per_diem) = 3
    /\ pdf.adjusted_per_diem = adjusted_per_diem_daily
    /\ pdf.total_reductions[2] > 0
    /\ pdf.adjusted_per_diem[2] > 0
    /\ pdf.adjusted_per_diem[1] # pdf.adjusted_per_diem[2]
    /\ pdf.total_per_diem_calculated = pdf.total_per_diem
    /\ pdf.total_per_diem > 0

\* C20: a submission is rejected with the 'fix all invalid input fields'
\* message only if an amount field rendered in that run holds text that is
\* not a number; a flag left by a day that is no longer rendered does not
\* block it.
C20_OnlyRenderedFieldsBlock ==
    [][ (message' = "invalid" /\ Submit) => NonNumericOnPage ]_vars

\* the state the blocked submission starts from: a one-day form with nothing
\* invalid on it, and the flag of day 2 of the earlier two-day trip
C20_StaleFlagOnPage ==
    /\ pc \in {"form", "rejected"}
    /\ ~required_missing
    /\ ~NonNumericOnPage
    /\ Len(per_diem_dates) = 1
    /\ \E k \in error_keys : k[2] = 2

\* what the claim says number_text_input returns for a text
ClaimedNumberInput(text) ==
    IF text.kind \in {"empty", "space"} THEN [value |-> Fl(0), has_error |-> FALSE]
    ELSE IF text.kind = "bad" THEN [value |-> Fl(0), has_error |-> TRUE]
    ELSE IF text.kind = "num" /\ text.v < 0 THEN [value |-> Fl(0), has_error |-> FALSE]
    ELSE [value |-> Fl(text.v), has_error |-> FALSE]

\* C27: once a submission run has rendered the number fields, every field
\* has returned a number that is at least 0: 0.0 with the flag cleared for
\* blank text, 0 with the flag cleared for a number below 0, the number with
\* the flag cleared for other parsable text, and 0.0 with the flag set for
\* text that is not a valid number.
C27_NumberInputAtLeastMin ==
    pc \in {"rejected", "review", "error", "done"} =>
        \A c \in Categories : \A i \in 1..Len(amount_text[c]) :
            LET r == number_text_input(amount_text[c][i])
            IN  /\ ~r.value.nan
                /\ r.value.v >= min_value.v
                /\ r = ClaimedNumberInput(amount_text[c][i])
                /\ (<<c, i>> \in error_keys) = r.has_error

\* the claim's cases other than the text 'nan' are reached and hold: a
\* negative number is raised to 0 and invalid text sets the flag
C27_OtherCasesReached ==
    /\ pc = "rejected"
    /\ \E c \in Categories : \E i \in 1..Len(amount_text[c]) :
           /\ amount_text[c][i] = TextBad
           /\ <<c, i>> \in error_keys
           /\ number_text_input(amount_text[c][i]) = [value |-> Fl(0), has_error |-> TRUE]
    /\ number_text_input(TextNum(-4000)) = [value |-> Fl(0), has_error |-> FALSE]

\* breakfast, lunch and dinner are all flagged on day i
AllMealsFlagged(i) ==
    Checked(breakfast_checks, i) /\ Checked(lunch_checks, i) /\ Checked(dinner_checks, i)

\* the four constants of a table row add up to the tier
RowSumsToTier(table, t) ==
    table[t].breakfast + table[t].lunch + table[t].dinner + table[t].incidental = t

\* C30: in both tables the breakfast, lunch, dinner and incidental constants
\* of every recognized tier add up to the tier. The incidental amount is
\* neither added to nor taken from a day: a dated day at a recognized tier has
\* the pre-adjustment total tier minus flagged meals, which is the tier's
\* incidental amount (5) when all three meals are flagged and is above 0 in
\* every case, so the floor at zero is not reached.
C30_IncidentalIsInsideBaseRate ==
    /\ \A t \in PER_DIEM_OPTIONS :
           RowSumsToTier(meal_deductions, t) /\ RowSumsToTier(main_meal_deductions, t)
    /\ \A t \in PER_DIEM_OPTIONS : \A i \in DatedDays : HasTier(i, t) =>
           /\ t - FlaggedMeals(meal_deductions[t], i) > 0
           /\ pc = "done" =>
                  /\ pdf.daily_meal_totals[i] =
                         1000 * (t - FlaggedMeals(meal_deductions[t], i))
                  /\ AllMealsFlagged(i) =>
                         pdf.daily_meal_totals[i] = 1000 * meal_deductions[t].incidental
                  /\ pdf.daily_meal_totals[i] >= 5000
           /\ (pc = "review" /\ AllMealsFlagged(i)) =>
                  adjusted_per_diem_daily[i] =
                      IF FirstDated(i) \/ LastDated(i) THEN 3750 ELSE 5000

\* tier 86 with all meals flagged on every day of a 3-day trip: 5.00 is left
\* on the interior day and 3.75 on the first day
C30_Witness ==
    /\ pc = "done"
    /\ DatedDays = {1, 2, 3}
    /\ HasTier(2, 86) /\ AllMealsFlagged(1) /\ AllMealsFlagged(2)
    /\ pdf.total_reductions[2] = 81000
    /\ pdf.daily_meal_totals[2] = 5000
    /\ pdf.adjusted_per_diem[2] = 5000
    /\ pdf.adjusted_per_diem[1] = 3750

(***************************************************************************)
(* C28: generate_date_range                                                *)
(***************************************************************************)

\* what the returned list holds: max_days entries, all '' when a date is
\* missing; otherwise the first min(max_days, end - start + 1) entries are
\* the consecutive days from start_date and the others are ''
ClaimedDateRange(start_date, end_date, max_days) ==
    LET span == IF end_date >= start_date THEN (end_date - start_date) + 1 ELSE 0
        k == IF start_date = NoDate \/ end_date = NoDate THEN 0
             ELSE Min(max_days, span)
    IN  [i \in 1..max_days |->
            IF i <= k THEN strftime(start_date + (i - 1)) ELSE <<>>]

RangeReturned == range_call.at = "returned"

\* a returned list has max_days entries, holds what ClaimedDateRange says and
\* is what generate_date_range computes in one step
RangeResultIsClaimed ==
    RangeReturned =>
        /\ Len(range_call.dates) = range_call.max_days
        /\ range_call.dates =
               ClaimedDateRange(range_call.start_date, range_call.end_date,
                                range_call.max_days)
        /\ range_call.dates =
               generate_date_range(range_call.start_date, range_call.end_date,
                                   range_call.max_days)

\* C28: a run of generate_date_range returns, whatever the dates and
\* max_days >= 0 are, and the list it returns has exactly max_days entries:
\* all '' when a date is missing, otherwise the consecutive days from
\* start_date (none after end_date) followed by ''
C28_DateRangeReturnsMaxDaysEntries ==
    /\ <>RangeReturned
    /\ [](range_call.at \in {"loop", "fill"} =>
              Len(range_call.dates) <= range_call.max_days)
    /\ []RangeResultIsClaimed

\* a range longer than max_days was cut at max_days, and one shorter was filled
C28_Witness ==
    /\ RangeReturned
    /\ range_call.start_date = 30
    /\ range_call.end_date = 31
    /\ range_call.max_days = 3
    /\ range_call.dates = <<strftime(30), strftime(31), <<>>>>
    /\ strftime(30) = <<"0", "1", "/", "3", "1", "/", "2", "5">>
    /\ strftime(31) = <<"0", "2", "/", "0", "1", "/", "2", "5">>

\* a range longer than max_days is cut at max_days
C28_CutReached ==
    /\ RangeReturned
    /\ range_call.start_date = 58
    /\ range_call.end_date = 64
    /\ range_call.max_days = 2
    /\ range_call.dates = <<strftime(58), strftime(59)>>

(***************************************************************************)
(* C29: seven days per table, the grand total in the last table            *)
(***************************************************************************)

\* the tables of one section hold the days of the list `days` in order, seven
\* per table, and the cell under 'Total' shows `grand` in the last table and
\* is empty in every other
SectionIsChunked(tables, days, grand) ==
    LET n == Len(days)
    IN  /\ Len(tables) = (n + 6) \div 7
        /\ \A k \in 1..Len(tables) :
            /\ Len(tables[k].dates) = 7
            /\ \A j \in 1..7 :
                tables[k].dates[j] =
                    IF (k - 1) * 7 + j <= n THEN days[(k - 1) * 7 + j] ELSE <<>>
            /\ tables[k].total =
                   IF k = Len(tables) THEN MoneyCell(grand) ELSE EmptyCell
        /\ Cardinality({k \in 1..Len(tables) : tables[k].total.present}) = 1

\* the rows every expense table has, and the grand total each one shows
ExpenseGrand ==
    [airfare |-> "grand_af", ground_transport |-> "grand_gt",
     parking |-> "grand_pk", lodging |-> "grand_lg", baggage |-> "grand_bg"]

\* C29: for every day count from 1 to 60, each section of the PDF (mileage,
\* expenses, per diem) splits the days into consecutive 7-day tables in order
\* and prints its grand total in the last table only
C29_SevenDayTablesTotalInLast ==
    pc = "done" =>
        /\ Len(per_diem_dates) \in 1..MaxFormDays
        /\ SectionIsChunked(pdf.mileage_tables, mileage_dates,
                            pdf.grand_mileage_rate_total)
        /\ SectionIsChunked(pdf.per_diem_tables, per_diem_dates,
                            pdf.total_per_diem_calculated)
        /\ \A c \in DOMAIN ExpenseGrand :
            SectionIsChunked(
                [k \in 1..Len(pdf.expense_tables) |->
                    [dates |-> pdf.expense_tables[k].dates,
                     total |-> pdf.expense_tables[k][c].total]],
                expense_dates, pdf[ExpenseGrand[c]])

\* sixty days make nine tables; the ninth holds days 57 to 60 and the totals
C29_Witness ==
    /\ pc = "done"
    /\ Len(mileage_dates) = 60
    /\ Len(pdf.mileage_tables) = 9
    /\ Len(pdf.expense_tables) = 9
    /\ Len(pdf.per_diem_tables) = 9
    /\ pdf.per_diem_tables[9].dates =
           <<strftime(56), strftime(57), strftime(58), strftime(59), <<>>, <<>>, <<>>>>
    /\ pdf.per_diem_tables[2].dates[1] = strftime(7)
    /\ pdf.mileage_tables[9].total = MoneyCell(Fl(420000))
    /\ pdf.mileage_tables[1].total = EmptyCell
    /\ pdf.expense_tables[9].lodging.total = MoneyCell(Fl(600000))
    /\ pdf.expense_tables[8].lodging.total = EmptyCell
    /\ pdf.per_diem_tables[9].total.present
    /\ ~pdf.per_diem_tables[8].total.present

\* seven days fill one table, eight days need a second one
C29_BoundaryReached ==
    /\ pc = "done"
    /\ Len(expense_dates) = 8
    /\ Len(pdf.expense_tables) = 2
    /\ pdf.expense_tables[2].dates[1] = strftime(7)
    /\ pdf.expense_tables[2].dates[2] = <<>>

(***************************************************************************)
(* C26: the miscellaneous amounts that are counted are printed             *)
(***************************************************************************)

\* the description field of a miscellaneous category
DescOf(c) == IF c = "misc" THEN misc_desc1 ELSE misc_desc2

\* the amount of day i of category c is shown in column i of the row of the
\* expense tables that is labelled with the category's description
MiscAmountPrinted(c, i) ==
    LET table == pdf.expense_tables[((i - 1) \div 7) + 1]
        x == AmountList(amount_text[c])[i]
    IN  \E r \in 1..Len(table.misc_rows) :
            /\ table.misc_rows[r].label = Strip(DescOf(c))
            /\ table.misc_rows[r].cells[((i - 1) % 7) + 1] = MoneyCell(x)

\* the miscellaneous amounts the form holds
MiscAmounts ==
    {<<c, i>> \in {"misc", "misc2"} \X (1..Len(expense_dates)) :
        FTruthy(AmountList(amount_text[c])[i])}

\* the sub-total and the total amount due count every miscellaneous amount
MiscAmountsCounted ==
    /\ pdf.total_misc = FAdd(PySum(AmountList(amount_text["misc"])),
                             PySum(AmountList(amount_text["misc2"])))
    /\ pdf.total_amount_due.v >= pdf.total_misc.v

\* C26: every miscellaneous amount that counts toward the Miscellaneous/Other
\* sub-total and the Total Amount Due is printed in a miscellaneous row of
\* the PDF expense tables, whatever descriptions are filled or blank
C26_CountedMiscAmountsArePrinted ==
    pc = "done" =>
        /\ MiscAmountsCounted
        /\ \A ci \in MiscAmounts : MiscAmountPrinted(ci[1], ci[2])

\* with both descriptions filled both amounts are printed and counted
C26_FilledDescriptionsReached ==
    /\ pc = "done"
    /\ Strip(misc_desc1) # <<>>
    /\ Strip(misc_desc2) # <<>>
    /\ Cardinality(MiscAmounts) = 2
    /\ \A ci \in MiscAmounts : MiscAmountPrinted(ci[1], ci[2])
    /\ pdf.total_misc = Fl(3750)

\* an amount is counted in the sub-total and no row shows it
C26_CountedButNotPrinted ==
    /\ pc = "done"
    /\ misc_desc1 = <<>>
    /\ MiscAmounts = {<<"misc", 1>>}
    /\ pdf.expense_tables[1].misc_rows = <<>>
    /\ pdf.total_misc = Fl(2500)
    /\ pdf.total_amount_due.v >= 2500

\* the printed rows when every amount has a description
C26_PrintedWhenDescribed ==
    (pc = "done" /\ \A ci \in MiscAmounts : Strip(DescOf(ci[1])) # <<>>) =>
        /\ MiscAmountsCounted
        /\ \A ci \in MiscAmounts : MiscAmountPrinted(ci[1], ci[2])

(***************************************************************************)
(* C21: what a run needs to make the PDF                                   *)
(***************************************************************************)

\* C21: a PDF is generated only by a run in which a review record is in the
\* session state, the approval checkbox is checked and the "Finalize and
\* Download PDF" button was clicked; a run in which the record is absent or
\* the checkbox is unchecked generates none
C21_PdfNeedsRecordApprovalAndClick ==
    [][ /\ pdf'.present =>
            /\ review_data.present
            /\ approve_review
            /\ approve_review'
            /\ Finalize
        /\ (~review_data.present \/ ~approve_review) =>
            /\ ~pdf'.present
            /\ ~(message' = "success")
            /\ ~ENABLED Finalize ]_vars

\* a PDF was made from an approved record
C21_Witness ==
    /\ pc = "done"
    /\ pdf.present
    /\ approve_review
    /\ message = "success"

\* a record is on the page for review and not approved: the button is disabled
C21_UnapprovedReached ==
    /\ pc = "review"
    /\ review_data.present
    /\ ~approve_review
    /\ ~ENABLED Finalize

(***************************************************************************)
(* C22, C23, C24: the stored review record                                 *)
(***************************************************************************)

\* this step is a submission that passes every validation and stores a record
AcceptedSubmission ==
    /\ ~required_missing
    /\ review_data'.present
    /\ message' \in {"review", "error"}
    /\ UNCHANGED date_vars
    /\ ~has_validation_errors(error_keys')
    /\ ~main_per_diem_raises(per_diem_dates, per_diem_amounts)
    /\ Submit

\* the record a submission of the form on the page stores
SubmittedRecord ==
    FormData(amount_text, misc_desc1, misc_desc2, mileage_dates, expense_dates,
             per_diem_dates, per_diem_amounts, breakfast_checks, lunch_checks,
             dinner_checks)

\* C22: a PDF is generated only for a review record the user approved after
\* that record was stored: the run of an accepted submission, which stores a
\* record, leaves the approval unchecked, so that an approval given to an
\* earlier record does not let the new record be finalized
C22_ApprovalIsForTheStoredRecord ==
    [][ AcceptedSubmission => ~approve_review' ]_vars

\* the same for a submission that replaces a record that is still stored
C22_ReplacingRecordNeedsNewApproval ==
    [][ (review_data.present /\ review_data' # review_data /\ AcceptedSubmission)
            => ~approve_review' ]_vars

\* with no approval checked before the submission, the stored record is
\* not approved
C22_FreshApprovalReached ==
    /\ pc = "review"
    /\ message = "review"
    /\ ~approve_review

\* C23: a run that generates the PDF removes the review record, so that an
\* accepted submission yields at most one PDF: after it no PDF can be made
\* until a submission is accepted again
C23_OnePdfPerAcceptedSubmission ==
    [][ /\ pdf'.present =>
            /\ review_data.present
            /\ ~review_data'.present
        /\ (~review_data.present /\ review_data'.present) => AcceptedSubmission
        /\ ~review_data.present => ~pdf'.present ]_vars

\* the PDF was made and the record is gone
C23_Witness ==
    /\ pc = "done"
    /\ pdf.present
    /\ ~review_data.present
    /\ ~ENABLED Finalize
    /\ ENABLED Submit

\* C24: a PDF is built from the stored record, and the stored record is the
\* one of the latest accepted submission: an accepted submission overwrites
\* it with the record of the form, the run that makes the PDF deletes it,
\* and no other run (a rejected submission, a change of the travel dates, a
\* rerun without submission) changes it
C24_PdfIsBuiltFromLatestAcceptedRecord ==
    [][ /\ pdf'.present => pdf' = create_pdf(review_data, resources)
        /\ AcceptedSubmission => review_data' = SubmittedRecord
        /\ review_data' # review_data =>
               \/ AcceptedSubmission
               \/ pdf'.present /\ ~review_data'.present /\ Finalize ]_vars

\* the PDF was made from the record of a one-day form after the dates were
\* changed and the form on the page has two days
C24_Witness ==
    /\ pc = "done"
    /\ pdf.present
    /\ Len(pdf.adjusted_per_diem) = 1
    /\ Len(per_diem_dates) = 2
    /\ pdf # create_pdf(SubmittedRecord, resources)

\* a stored record is on the page after a rejected submission
C24_RejectedKeepsRecord ==
    /\ pc = "rejected"
    /\ review_data.present

(***************************************************************************)
(* C25: the defaults of the date fields                                    *)
(***************************************************************************)
\* a step that is one run of main()
RunOfMain ==
    \/ Open
    \/ Submit
    \/ \E d \in TravelDates : ChangeDates(d[1], d[2])

\* the dates of the run differ from the recorded ones
DatesDiffer ==
    /\ last_dates.present
    /\ <<departure_date', return_date'>> # <<last_dates.departure, last_dates.return>>

\* the number of days of the trip of the run, at most 60
DayCount == Min(return_date' - departure_date' + 1, 60)

\* the i-th date of the range of the run, as the text of a date field
RangeDate(i) == strftime(departure_date' + i)

\* every date field of the indexes 0..99 holds the date of its day, or ''
\* from the day count on
AllFieldsReset ==
    /\ DOMAIN date_fields' = DateFieldFamilies \X (0..99)
    /\ \A k \in DOMAIN date_fields' :
           date_fields'[k] = IF k[2] < DayCount THEN RangeDate(k[2]) ELSE <<>>

\* the recorded dates are those of the run
LastDatesUpdated ==
    last_dates' = [present |-> TRUE, departure |-> departure_date',
                   return |-> return_date']

\* the date field entries the run starts with: a submission brings the texts
\* of the fields on the page
EntryFields ==
    IF message' = "required"
    THEN submitted_date_fields(date_fields, mileage_dates, expense_dates,
                               per_diem_dates)
    ELSE date_fields

\* the entries the run starts with are kept, and the missing ones of the
\* days of the trip hold the date of their day
PresentKeptMissingInitialised ==
    /\ DOMAIN date_fields' = DOMAIN EntryFields \cup (DateFieldFamilies \X (0..(DayCount - 1)))
    /\ \A k \in DOMAIN date_fields' :
           date_fields'[k] = IF k \in DOMAIN EntryFields THEN EntryFields[k]
                             ELSE RangeDate(k[2])

\* C25 as stated: in every run whose departure or return date differs from
\* the recorded one, the three date fields of every index 0..99 are set to
\* the date of their day or to '' and the recorded dates are updated; in
\* every run whose dates did not change, the entries present are left as
\* they are and the missing ones are initialised.
C25_ChangedDatesResetEveryRun ==
    [][ RunOfMain =>
          IF DatesDiffer
          THEN AllFieldsReset /\ LastDatesUpdated
          ELSE PresentKeptMissingInitialised ]_vars

\* C25 amended: the statement holds of every run that reaches the date
\* tracking, which is every run in which the template loads and the return
\* date is not before the departure date.
C25_ChangedDatesResetValidRun ==
    [][ RunOfMain /\ resources.template /\ return_date' >= departure_date' =>
          IF DatesDiffer
          THEN AllFieldsReset /\ LastDatesUpdated
          ELSE PresentKeptMissingInitialised ]_vars

\* a run with changed dates has set all 300 fields for a trip of two days
C25_Witness ==
    /\ last_dates.present
    /\ last_dates.return = last_dates.departure + 1
    /\ DOMAIN date_fields = DateFieldFamilies \X (0..99)
    /\ date_fields[<<"expense_date", 1>>] = strftime(return_date)
    /\ date_fields[<<"expense_date", 2>>] = <<>>

\* a text the user typed has been submitted and is kept by the run
C25_EditKept ==
    /\ message = "required"
    /\ \E k \in DOMAIN date_fields : date_fields[k] \in DateEdits

\* a run with a return before the departure has left the recorded dates
C25_StoppedRunReached ==
    /\ pc = "dates"
    /\ last_dates.present
    /\ <<departure_date, return_date>> # <<last_dates.departure, last_dates.return>>

====
